---- MODULE Spec2Model ----
(***************************************************************************)
(* The action engine of durango: GameState::process_action and the Player *)
(* resource model it drives (src/src/game.rs, src/src/player.rs,          *)
(* src/src/cards.rs, src/src/data.rs).                                     *)
(*                                                                         *)
(* Indices are 0-based as in the Rust source; a Vec is a sequence and     *)
(* element i of a Vec v is v[i + 1].                                       *)
(***************************************************************************)
EXTENDS Integers, Sequences, FiniteSets, TLC

\* ------------------------------------------------------------------------
\* Bounds of the exploration
\* ------------------------------------------------------------------------
\* Number of process_action calls followed from the starting snapshot.
MaxSteps == 1
\* Longest path of a Move action.
MaxPath == 2
\* Longest card-index list of an action.
MaxCards == 2
\* Longest token-index list of a BuyCard; a Move may name one more.
MaxTokens == 1
\* The same for the longer runs of SpecLong, where a Move names no more
\* tokens than a BuyCard.
LongSteps == 3
LongPath == 1
LongCards == 1
LongTokens == 0
\* Leading Shop and Storage slots the purchases of SpecLong try.
LongProbes == 2

\* ------------------------------------------------------------------------
\* Program constants
\* ------------------------------------------------------------------------
HAND_SIZE == 4
SHOP_SIZE == 6
U8 == 256

\* ------------------------------------------------------------------------
\* Vec helpers
\* ------------------------------------------------------------------------
At(v, i) == v[i + 1]

InRange(v, i) == i >= 0 /\ i < Len(v)

\* Vec::swap_remove for an index in range: the last element takes the place
\* of the removed one.
SwapRemove(v, i) ==
    LET n == Len(v) IN
    [k \in 1..(n - 1) |-> IF k = i + 1 THEN v[n] ELSE v[k]]

RECURSIVE SeqSum(_)
SeqSum(s) == IF s = <<>> THEN 0 ELSE s[1] + SeqSum(Tail(s))

SeqMax(s) == CHOOSE m \in {s[k] : k \in DOMAIN s} : \A k \in DOMAIN s : s[k] <= m

Range(s) == {s[k] : k \in DOMAIN s}

RemoveAt(s, k) == [j \in 1..(Len(s) - 1) |-> IF j < k THEN s[j] ELSE s[j + 1]]

\* All orders a shuffle can leave a Vec in.
RECURSIVE Shuffles(_)
Shuffles(s) ==
    IF Len(s) <= 1 THEN {s}
    ELSE LET firsts == {k \in 1..Len(s) : \A j \in 1..(k - 1) : s[j] # s[k]}
         IN UNION {{<<s[k]>> \o t : t \in Shuffles(RemoveAt(s, k))} : k \in firsts}

\* ------------------------------------------------------------------------
\* Cards (cards.rs)
\* ------------------------------------------------------------------------
NoAction == [kind |-> "None", n |-> 0]
FreeBuy == [kind |-> "FreeBuy", n |-> 0]
FreeMove == [kind |-> "FreeMove", n |-> 0]
DrawN(n) == [kind |-> "Draw", n |-> n]
DrawAndTrash(n) == [kind |-> "DrawAndTrash", n |-> n]

MkCard(movement, single_use, action) ==
    [movement |-> movement, single_use |-> single_use, action |-> action]

regular(cost, movement) ==
    [cost |-> cost, card |-> MkCard(movement, FALSE, NoAction), quantity |-> 3]
single_use(cost, movement) ==
    [cost |-> cost, card |-> MkCard(movement, TRUE, NoAction), quantity |-> 3]
action_card(cost, act, su) ==
    [cost |-> cost, card |-> MkCard(<<0, 0, 0>>, su, act), quantity |-> 3]

to_card(bcard) == bcard.card

Max2(a, b) == IF a >= b THEN a ELSE b

\* gold_value with the floor of 1 doubled along with the movement.
gold_value_floor_doubled(card) == 2 * Max2(1, card.movement[2])

gold_value(card) == Max2(1, 2 * card.movement[2])

explorer == MkCard(<<1, 0, 0>>, FALSE, NoAction)
traveler == MkCard(<<0, 1, 0>>, FALSE, NoAction)
sailor == MkCard(<<0, 0, 1>>, FALSE, NoAction)

\* ------------------------------------------------------------------------
\* Bonus tokens (data.rs)
\* ------------------------------------------------------------------------
Tok(kind, v) == [kind |-> kind, v |-> v]

token_gold_value(tok) == IF tok.kind = "Desert" THEN tok.v * 2 ELSE 0

\* ------------------------------------------------------------------------
\* The board (data.rs: AxialCoord, HexDirection, Node, HexMap)
\* ------------------------------------------------------------------------
Coord(q, r) == <<q, r>>

ALL_DIRECTIONS == <<"NorthEast", "East", "SouthEast", "SouthWest", "West", "NorthWest">>

neighbor_coord(dir, coord) ==
    LET d == CASE dir = "East" -> <<1, 0>>
               [] dir = "West" -> <<-1, 0>>
               [] dir = "NorthEast" -> <<1, -1>>
               [] dir = "NorthWest" -> <<0, -1>>
               [] dir = "SouthEast" -> <<0, 1>>
               [] dir = "SouthWest" -> <<-1, 1>>
    IN <<coord[1] + d[1], coord[2] + d[2]>>

Abs(x) == IF x < 0 THEN -x ELSE x

is_adjacent(a, b) ==
    LET dq == Abs(a[1] - b[1])
        dr == Abs(a[2] - b[2])
        ds == Abs(a[1] + a[2] - b[1] - b[2])
    IN dq <= 1 /\ dr <= 1 /\ ds <= 1 /\ dq + dr + ds = 2

MkNode(q, r, terrain, cost, board_idx) ==
    [coord |-> <<q, r>>, terrain |-> terrain, cost |-> cost, board_idx |-> board_idx]

\* A three-segment layout in coordinate order; the last segment (2) is the
\* finish.  Row r = 0 runs from the start hexes to the finish, rows -1 and 1
\* carry the special terrains.
HexMapNodes ==
    << MkNode(0, 0, "Jungle", 1, 0),
       MkNode(0, 1, "Jungle", 1, 0),
       MkNode(1, -1, "Jungle", 1, 0),
       MkNode(1, 0, "Jungle", 2, 0),
       MkNode(1, 1, "Cave", 1, 0),
       MkNode(2, -1, "Jungle", 10, 0),
       MkNode(2, 0, "Desert", 1, 0),
       MkNode(2, 1, "Village", 1, 0),
       MkNode(3, 0, "Jungle", 1, 1),
       MkNode(3, 1, "Swamp", 1, 1),
       MkNode(4, 0, "Water", 1, 1),
       MkNode(4, 1, "Invalid", 1, 1),
       MkNode(5, 0, "Jungle", 1, 2) >>

finish_idx == HexMapNodes[Len(HexMapNodes)].board_idx

NoNode == [coord |-> <<>>, terrain |-> "None", cost |-> 0, board_idx |-> -1]

HasNode(coord) == \E k \in DOMAIN HexMapNodes : HexMapNodes[k].coord = coord

node_at(coord) ==
    IF HasNode(coord)
    THEN HexMapNodes[CHOOSE k \in DOMAIN HexMapNodes : HexMapNodes[k].coord = coord]
    ELSE NoNode

is_finish(coord) == HasNode(coord) /\ node_at(coord).board_idx = finish_idx

with_terrain(coord, terrain) == HasNode(coord) /\ node_at(coord).terrain = terrain

\* ------------------------------------------------------------------------
\* HexGraph (graph.rs)
\* ------------------------------------------------------------------------
\* The sentinel distance of a node the search never reaches.
I32_MAX == 2147483647

\* slice::partition_point as node_idx uses it: the binary search for the
\* first index (from 0) in lo..hi whose flag is FALSE.
RECURSIVE PartitionPoint(_, _, _)
PartitionPoint(flags, lo, hi) ==
    IF lo >= hi THEN lo
    ELSE LET mid == lo + (hi - lo) \div 2
         IN IF flags[mid + 1] THEN PartitionPoint(flags, mid + 1, hi)
            ELSE PartitionPoint(flags, lo, mid)

\* slice::binary_search over the indices lo..hi (from 0) of s: the index of
\* an entry equal to x, or -1.
RECURSIVE BinarySearch(_, _, _, _)
BinarySearch(s, x, lo, hi) ==
    IF lo >= hi THEN -1
    ELSE LET mid == lo + (hi - lo) \div 2
         IN IF s[mid + 1] = x THEN mid
            ELSE IF s[mid + 1] < x THEN BinarySearch(s, x, mid + 1, hi)
            ELSE BinarySearch(s, x, lo, mid)

\* The end of the run of nodes with q = coord.q that starts at start_idx.
QRunEnd(nodes, coord, start_idx) ==
    start_idx + PartitionPoint([k \in 1..(Len(nodes) - start_idx) |->
                                   nodes[start_idx + k].coord[1] = coord[1]],
                               0, Len(nodes) - start_idx)

\* The binary search for coord.r within the run start_idx..end_idx.
RSearch(nodes, coord, start_idx, end_idx) ==
    BinarySearch([k \in 1..(end_idx - start_idx) |-> nodes[start_idx + k].coord[2]],
                 coord[2], 0, end_idx - start_idx)

\* HexMap::node_idx: the index of the node at coord (from 1), or 0 for None.
node_idx(nodes, coord) ==
    LET start_idx == PartitionPoint([k \in DOMAIN nodes |-> nodes[k].coord[1] < coord[1]],
                                    0, Len(nodes))
        found == RSearch(nodes, coord, start_idx, QRunEnd(nodes, coord, start_idx))
    IN IF found < 0 THEN 0 ELSE found + start_idx + 1

\* create_adjacencies: per node, the index of the neighbour in each of the
\* six directions, 0 where there is none.
create_adjacencies(nodes) ==
    [k \in DOMAIN nodes |->
        [i \in 1..6 |-> node_idx(nodes, neighbor_coord(ALL_DIRECTIONS[i], nodes[k].coord))]]

\* RelaxFrom recording a neighbour one step farther than it is.
RECURSIVE RelaxFromOneFarther(_, _, _, _, _, _)
RelaxFromOneFarther(nodes, adj, idx, next_dist, i, st) ==
    IF i > 6 THEN st
    ELSE IF /\ adj[idx][i] \in DOMAIN st.dists
            /\ st.dists[adj[idx][i]] > next_dist + 1
            /\ nodes[adj[idx][i]].cost < 10
        THEN RelaxFromOneFarther(nodes, adj, idx, next_dist, i + 1,
                       [queue |-> Append(st.queue, <<adj[idx][i], next_dist + 1>>),
                        dists |-> [st.dists EXCEPT ![adj[idx][i]] = next_dist + 1]])
    ELSE RelaxFromOneFarther(nodes, adj, idx, next_dist, i + 1, st)

\* The loop over the neighbours of the node popped off the queue, from the
\* i-th on; st holds the queue and the distances so far.
RECURSIVE RelaxFrom(_, _, _, _, _, _)
RelaxFrom(nodes, adj, idx, next_dist, i, st) ==
    IF i > 6 THEN st
    ELSE IF /\ adj[idx][i] \in DOMAIN st.dists
            /\ st.dists[adj[idx][i]] > next_dist
            /\ nodes[adj[idx][i]].cost < 10
        THEN RelaxFrom(nodes, adj, idx, next_dist, i + 1,
                       [queue |-> Append(st.queue, <<adj[idx][i], next_dist>>),
                        dists |-> [st.dists EXCEPT ![adj[idx][i]] = next_dist]])
    ELSE RelaxFrom(nodes, adj, idx, next_dist, i + 1, st)

\* The breadth-first search: pop the front of the queue until it is empty.
RECURSIVE SearchFrom(_, _, _)
SearchFrom(nodes, adj, st) ==
    IF st.queue = <<>> THEN st.dists
    ELSE SearchFrom(nodes, adj,
                    RelaxFrom(nodes, adj, Head(st.queue)[1], Head(st.queue)[2] + 1, 1,
                              [st EXCEPT !.queue = Tail(@)]))

\* create_hex_distances: the search seeded with every node of the finish board.
create_hex_distances(nodes, adj, finish_board_idx) ==
    LET OnFinishBoard(k) == nodes[k].board_idx = finish_board_idx
        seeds == SelectSeq([k \in DOMAIN nodes |-> k], OnFinishBoard)
    IN SearchFrom(nodes, adj,
                  [queue |-> [j \in DOMAIN seeds |-> <<seeds[j], 0>>],
                   dists |-> [k \in DOMAIN nodes |->
                                 IF OnFinishBoard(k) THEN 0 ELSE I32_MAX]])

\* The largest distance below the sentinel, or 0 when there is none.
MaxValid(ds) ==
    LET valid == {d \in {ds[k] : k \in DOMAIN ds} : d < I32_MAX}
    IN IF valid = {} THEN 0 ELSE CHOOSE d \in valid : \A e \in valid : e <= d

\* HexGraph::new for the map with the given nodes and finish board.
HexGraph_new(nodes, finish_board_idx) ==
    LET adj == create_adjacencies(nodes)
        ds == create_hex_distances(nodes, adj, finish_board_idx)
    IN [adj |-> adj, dists |-> ds, max_dist |-> MaxValid(ds)]

\* HexGraph.dists and HexGraph.max_dist of the game's map.
dists == HexGraph_new(HexMapNodes, finish_idx).dists

max_dist == HexGraph_new(HexMapNodes, finish_idx).max_dist

\* ------------------------------------------------------------------------
\* Building a map (data.rs: load_board, HexMap::create_custom)
\* ------------------------------------------------------------------------
\* Longest layout tried, largest rotation count, and the reach of the
\* centres a board is placed at.
MaxLayout == 2
MaxRotation == 2
MaxCenter == 2

SavedNode(q, r, terrain, cost) == [coord |-> <<q, r>>, terrain |-> terrain, cost |-> cost]

\* load_board: the saved nodes of a known board, Err for any other name.
\* The board files are not among the sources; four small boards
\* stand for them: a row of three passable hexes, a hex with a mountain
\* (cost 10) behind it, a column with a cave in its middle, and a column of
\* four jungle hexes.
load_board(board) ==
    CASE board = "A" ->
           [outcome |-> "Ok", error |-> "",
            nodes |-> <<SavedNode(-1, 0, "Jungle", 1), SavedNode(0, 0, "Desert", 1),
                        SavedNode(1, 0, "Water", 1)>>]
      [] board = "B" ->
           [outcome |-> "Ok", error |-> "",
            nodes |-> <<SavedNode(0, 0, "Jungle", 1), SavedNode(0, 1, "Jungle", 10)>>]
      [] board = "C" ->
           [outcome |-> "Ok", error |-> "",
            nodes |-> <<SavedNode(0, -1, "Jungle", 1), SavedNode(0, 0, "Cave", 1),
                        SavedNode(0, 1, "Desert", 1)>>]
      [] board = "S" ->
           [outcome |-> "Ok", error |-> "",
            nodes |-> <<SavedNode(0, -1, "Jungle", 1), SavedNode(0, 0, "Jungle", 1),
                        SavedNode(0, 1, "Jungle", 1), SavedNode(0, 2, "Jungle", 1)>>]
      [] OTHER -> [outcome |-> "Err", error |-> "Unknown board", nodes |-> <<>>]

\* One rotation step of create_custom, (q, r) to (-r, q + r), applied
\* `rotation` times.
RECURSIVE Rotated(_, _)
Rotated(coord, rotation) ==
    IF rotation = 0 THEN coord
    ELSE Rotated(<<-coord[2], coord[1] + coord[2]>>, rotation - 1)

\* The nodes entry i (from 0) of the layout contributes: rotated, moved to
\* the entry's centre, and tagged with the entry's index as board_idx.
PlacedBoard(info, i) ==
    LET saved == load_board(info.board).nodes
        Placed(n) == LET c == Rotated(n.coord, info.rotation)
                     IN MkNode(c[1] + info.center[1], c[2] + info.center[2],
                               n.terrain, n.cost, i)
    IN [k \in DOMAIN saved |-> Placed(saved[k])]

RECURSIVE PlacedBoards(_, _)
PlacedBoards(layout, i) ==
    IF i >= Len(layout) THEN <<>>
    ELSE PlacedBoard(layout[i + 1], i) \o PlacedBoards(layout, i + 1)

\* The derived order of AxialCoord: by q, then by r.
CoordLess(a, b) == a[1] < b[1] \/ (a[1] = b[1] /\ a[2] < b[2])

RECURSIVE InsertNode(_, _)
InsertNode(sorted, n) ==
    IF sorted = <<>> THEN <<n>>
    ELSE IF CoordLess(n.coord, Head(sorted).coord) THEN <<n>> \o sorted
    ELSE <<Head(sorted)>> \o InsertNode(Tail(sorted), n)

\* nodes.sort_unstable_by_key on the coordinate.  Nodes of equal coordinate
\* may come out in either order; create_custom rejects such a list without
\* looking at anything but the coordinates.
RECURSIVE SortNodes(_)
SortNodes(nodes) ==
    IF nodes = <<>> THEN <<>>
    ELSE InsertNode(SortNodes(Tail(nodes)), Head(nodes))

\* The windows(2) check: two neighbours of the sorted list share a coordinate.
HasOverlap(sorted) ==
    \E k \in 1..(Len(sorted) - 1) : sorted[k].coord = sorted[k + 1].coord

FirstUnknown(layout) ==
    CHOOSE k \in DOMAIN layout :
        /\ load_board(layout[k].board).outcome = "Err"
        /\ \A j \in 1..(k - 1) : load_board(layout[j].board).outcome = "Ok"

NoMap(error) == [outcome |-> "Err", error |-> error, nodes |-> <<>>, finish_idx |-> 0]

\* No map has been asked for.
NotBuilt == [outcome |-> "None", error |-> "", nodes |-> <<>>, finish_idx |-> 0]

\* create_custom without the sort: the boards' nodes in layout order.
create_custom_unsorted(layout) ==
    IF layout = <<>> THEN NoMap("Cannot create map with an empty layout")
    ELSE IF \E k \in DOMAIN layout : load_board(layout[k].board).outcome = "Err"
        THEN NoMap(load_board(layout[FirstUnknown(layout)].board).error)
    ELSE LET placed == PlacedBoards(layout, 0)
         IN IF HasOverlap(placed) THEN NoMap("Overlapping nodes")
            ELSE [outcome |-> "Ok", error |-> "", nodes |-> placed,
                  finish_idx |-> Len(layout) - 1]

\* HexMap::create_custom.
create_custom(layout) ==
    IF layout = <<>> THEN NoMap("Cannot create map with an empty layout")
    ELSE IF \E k \in DOMAIN layout : load_board(layout[k].board).outcome = "Err"
        THEN NoMap(load_board(layout[FirstUnknown(layout)].board).error)
    ELSE LET sorted == SortNodes(PlacedBoards(layout, 0))
         IN IF HasOverlap(sorted) THEN NoMap("Overlapping nodes")
            ELSE [outcome |-> "Ok", error |-> "", nodes |-> sorted,
                  finish_idx |-> Len(layout) - 1]

\* The layouts tried: up to MaxLayout boards, each known or not, turned up
\* to MaxRotation times and centred within MaxCenter of the origin.
LayoutInfos ==
    [board : {"A", "B", "C", "S", "?"}, rotation : 0..MaxRotation,
     center : {<<q, 0>> : q \in 0..MaxCenter} \cup {<<0, 1>>}]

Layouts == UNION {[1..k -> LayoutInfos] : k \in 0..MaxLayout}

\* ------------------------------------------------------------------------
\* Player (player.rs)
\* ------------------------------------------------------------------------
MkPlayer(position, deck, hand, played, discard, tokens, trashes, can_buy, visited_caves, broken_barriers) ==
    [position |-> position, deck |-> deck, hand |-> hand, played |-> played,
     discard |-> discard, tokens |-> tokens, trashes |-> trashes,
     can_buy |-> can_buy, visited_caves |-> visited_caves,
     broken_barriers |-> broken_barriers]

\* rev_sorted: the indices in descending order.
RECURSIVE rev_sorted(_)
rev_sorted(xs) ==
    IF xs = <<>> THEN <<>>
    ELSE LET m == SeqMax(xs)
             k == CHOOSE j \in DOMAIN xs : xs[j] = m
         IN <<m>> \o rev_sorted(RemoveAt(xs, k))

\* The loop shared by mark_played, discard_cards and trash_cards: swap_remove
\* each index of idxs in turn, collecting what was removed.  swap_remove
\* panics on an index that is out of range at the time it is applied.
RECURSIVE TakeEach(_, _, _)
TakeEach(hand, idxs, taken) ==
    IF idxs = <<>> THEN [panic |-> FALSE, hand |-> hand, taken |-> taken]
    ELSE IF ~InRange(hand, idxs[1]) THEN [panic |-> TRUE, hand |-> hand, taken |-> taken]
    ELSE TakeEach(SwapRemove(hand, idxs[1]), Tail(idxs),
                  Append(taken, At(hand, idxs[1])))

\* Each of the three returns [panic, p]: the player afterwards, or panic.
mark_played(p, cards) ==
    LET t == TakeEach(p.hand, rev_sorted(cards), <<>>) IN
    [panic |-> t.panic,
     p |-> [p EXCEPT !.hand = t.hand, !.played = p.played \o t.taken]]

discard_cards(p, cards) ==
    LET t == TakeEach(p.hand, rev_sorted(cards), <<>>) IN
    [panic |-> t.panic,
     p |-> [p EXCEPT !.hand = t.hand, !.discard = p.discard \o t.taken]]

trash_cards(p, cards) ==
    LET t == TakeEach(p.hand, rev_sorted(cards), <<>>) IN
    [panic |-> t.panic, p |-> [p EXCEPT !.hand = t.hand]]

\* Pop k cards off the end of the deck into the hand, one at a time.
RECURSIVE PopInto(_, _)
PopInto(p, k) ==
    IF k = 0 \/ p.deck = <<>> THEN p
    ELSE PopInto([p EXCEPT !.hand = Append(p.hand, p.deck[Len(p.deck)]),
                           !.deck = SubSeq(p.deck, 1, Len(p.deck) - 1)], k - 1)

\* fill_hand that never shuffles the discard pile back into the deck.
fill_hand_no_reshuffle(p, hand_size) ==
    IF hand_size - Len(p.hand) <= 0 THEN {p}
    ELSE {PopInto(p, hand_size - Len(p.hand))}

\* fill_hand: the set of players it can leave, one per outcome of the
\* reshuffle of the discard pile into an exhausted deck.
fill_hand(p, hand_size) ==
    LET need == hand_size - Len(p.hand) IN
    IF need <= 0 THEN {p}
    ELSE IF Len(p.deck) >= need \/ p.discard = <<>> THEN {PopInto(p, need)}
    ELSE LET q == PopInto(p, Len(p.deck)) IN
         {PopInto([q EXCEPT !.deck = d, !.discard = <<>>], need - Len(p.deck)) :
             d \in Shuffles(q.discard)}

replace_hand(p) ==
    fill_hand([p EXCEPT !.played = p.played \o p.hand, !.hand = <<>>], Len(p.hand))

finish_turn(p) ==
    {[q EXCEPT !.trashes = 0, !.can_buy = TRUE] :
        q \in fill_hand([p EXCEPT !.discard = p.discard \o p.played, !.played = <<>>],
                        HAND_SIZE)}

num_cards(p) == Len(p.hand) + Len(p.deck) + Len(p.played) + Len(p.discard)

\* ------------------------------------------------------------------------
\* GameState (game.rs)
\* ------------------------------------------------------------------------
MkGame(ps, sh, st, bars, bon, cpi, ri) ==
    [players |-> ps, shop |-> sh, storage |-> st, barriers |-> bars,
     bonuses |-> bon, curr_player_idx |-> cpi, round_idx |-> ri]

curr_player(gs) == At(gs.players, gs.curr_player_idx)

\* SetCurr writing the player after the current one.
SetCurrNext(gs, p) == [gs EXCEPT !.players[((gs.curr_player_idx + 1) % Len(gs.players)) + 1] = p]

SetCurr(gs, p) == [gs EXCEPT !.players[gs.curr_player_idx + 1] = p]

\* What one process_action call can come to: the value returned (or a panic)
\* and the state it leaves.  A call that panics does not return; the state
\* recorded for it is the one it was made in.
ROk(gs) == [outcome |-> "Ok", error |-> "", ignore_idx |-> -1, gs |-> gs]
RIgnore(gs, idx) ==
    IF idx >= 0 THEN [outcome |-> "IgnoreMoveIdx", error |-> "", ignore_idx |-> idx, gs |-> gs]
    ELSE ROk(gs)
RGameOver(gs) == [outcome |-> "GameOver", error |-> "", ignore_idx |-> -1, gs |-> gs]
RErr(gs, msg) == [outcome |-> "Err", error |-> msg, ignore_idx |-> -1, gs |-> gs]
RPanic(gs) == [outcome |-> "Panic", error |-> "", ignore_idx |-> -1, gs |-> gs]

\* is_occupied looking at the first player only.
is_occupied_by_first(gs, pos) ==
    At(gs.players, 0).position = pos /\ 0 # gs.curr_player_idx

is_occupied(gs, pos) ==
    \E i \in 0..(Len(gs.players) - 1) :
        At(gs.players, i).position = pos /\ i # gs.curr_player_idx

\* any_finished_player looking at the current player only.
curr_finished_player(gs) == is_finish(curr_player(gs).position)

any_finished_player(gs) ==
    \E i \in DOMAIN gs.players : is_finish(gs.players[i].position)

\* player_scores that grants the finishing bonus one hex early.
player_scores_near_finish(gs) ==
    [k \in DOMAIN gs.players |->
        max_dist - dists[node_idx(HexMapNodes, gs.players[k].position)]
            + Len(gs.players[k].broken_barriers)
            + (IF dists[node_idx(HexMapNodes, gs.players[k].position)] <= 1 THEN 1000 ELSE 0)]

\* player_scores: one score per player.
player_scores(gs) ==
    [k \in DOMAIN gs.players |->
        max_dist - dists[node_idx(HexMapNodes, gs.players[k].position)]
            + Len(gs.players[k].broken_barriers)
            + (IF dists[node_idx(HexMapNodes, gs.players[k].position)] = 0 THEN 1000 ELSE 0)]

\* has_open_shop off by one.
has_open_shop_inclusive(gs) == Len(gs.shop) <= SHOP_SIZE

has_open_shop(gs) == Len(gs.shop) < SHOP_SIZE

\* barrier_index: position of the barrier between two boards, or -1.
barrier_index(gs, from_board, to_board) ==
    IF from_board >= to_board THEN -1
    ELSE LET hit(b) == \/ (b.from_board = from_board /\ b.to_board = to_board)
                       \/ (b.from_board = to_board /\ b.to_board = from_board)
         IN IF \E k \in DOMAIN gs.barriers : hit(gs.barriers[k])
            THEN (CHOOSE k \in DOMAIN gs.barriers :
                     /\ hit(gs.barriers[k])
                     /\ \A j \in 1..(k - 1) : ~hit(gs.barriers[j])) - 1
            ELSE -1

\* take_card that leaves a sold-out listing in place.
take_card_keeps_sold_out(cards, idx) ==
    IF ~InRange(cards, idx) THEN cards
    ELSE [cards EXCEPT ![idx + 1].quantity = @ - 1]

\* take_card: one copy leaves the listing; an emptied listing is delisted.
take_card(cards, idx) ==
    IF ~InRange(cards, idx) THEN cards
    ELSE IF At(cards, idx).quantity - 1 = 0 THEN SwapRemove(cards, idx)
    ELSE [cards EXCEPT ![idx + 1].quantity = @ - 1]

\* sort_unstable_by_key(cost): every order by cost; listings of equal cost
\* may land in any order.
SortedByCost(s) ==
    {t \in Shuffles(s) : \A k \in 1..(Len(t) - 1) : t[k].cost <= t[k + 1].cost}

\* The loop that removes the used tokens: swap_remove at each index, in the
\* reverse of the order listed.
RECURSIVE RemoveTokens(_, _)
RemoveTokens(tokens, idxs) ==
    IF idxs = <<>> THEN [panic |-> FALSE, tokens |-> tokens]
    ELSE LET i == idxs[Len(idxs)] IN
         IF ~InRange(tokens, i) THEN [panic |-> TRUE, tokens |-> tokens]
         ELSE RemoveTokens(SwapRemove(tokens, i), SubSeq(idxs, 1, Len(idxs) - 1))

\* tokens.iter().any(|i| matches!(tokens[i], kind)): "yes", "no", or "panic"
\* when an index out of range is met before a match.
RECURSIVE AnyToken(_, _, _)
AnyToken(tokens, idxs, kind) ==
    IF idxs = <<>> THEN "no"
    ELSE IF ~InRange(tokens, idxs[1]) THEN "panic"
    ELSE IF At(tokens, idxs[1]).kind = kind THEN "yes"
    ELSE AnyToken(tokens, Tail(idxs), kind)

\* BuyDone that leaves can_buy as it was.
BuyDoneKeepsCanBuy(gs, buy, is_free_buy, shop1, storage1, paid) ==
    LET toks == RemoveTokens(paid.p.tokens, buy.tokens)
        p3 == [paid.p EXCEPT !.tokens = toks.tokens]
    IN
    IF paid.panic \/ toks.panic THEN {RPanic(gs)}
    ELSE {ROk([SetCurr(gs, p3) EXCEPT !.shop = sorted, !.storage = storage1]) :
             sorted \in SortedByCost(shop1)}

\* The end of handle_buy: the bought card is on the discard pile and the
\* payment is taken from the hand (paid); can_buy, the sort of the Shop and
\* the used tokens remain.
BuyDone(gs, buy, is_free_buy, shop1, storage1, paid) ==
    LET toks == RemoveTokens(paid.p.tokens, buy.tokens)
        p3 == [paid.p EXCEPT !.can_buy = IF is_free_buy THEN @ ELSE FALSE,
                             !.tokens = toks.tokens]
    IN
    IF paid.panic \/ toks.panic THEN {RPanic(gs)}
    ELSE {ROk([SetCurr(gs, p3) EXCEPT !.shop = sorted, !.storage = storage1]) :
             sorted \in SortedByCost(shop1)}

\* The payment: all played, all trashed, or the mix of the two.
BuyPay(p1, hand, cards, single_use_idxs) ==
    LET NotSingle(c) == \A k \in DOMAIN single_use_idxs : single_use_idxs[k] # c
        kept == SelectSeq(cards, NotSingle)
    IN
    IF single_use_idxs = <<>> THEN mark_played(p1, cards)
    ELSE IF Len(single_use_idxs) = Len(cards) THEN trash_cards(p1, cards)
    ELSE [panic |-> FALSE,
          p |-> [p1 EXCEPT
                   !.played = @ \o [k \in 1..Len(kept) |-> At(hand, kept[k])],
                   !.hand = <<>>]]

\* handle_buy from the Shop/Storage update on, the purchase accepted.
BuyTake(gs, buy, bcard, is_free_buy) ==
    LET i == buy.index.i
        from_shop == buy.index.where = "Shop"
        player == curr_player(gs)
        IsSingle(c) == /\ At(player.hand, c).single_use
                       /\ (is_free_buy \/ gold_value(At(player.hand, c)) > 0)
        shop1 == IF from_shop THEN take_card(gs.shop, i)
                 ELSE IF is_free_buy THEN gs.shop
                 ELSE take_card(Append(gs.shop, At(gs.storage, i)), Len(gs.shop))
        storage1 == IF from_shop THEN gs.storage
                    ELSE IF is_free_buy THEN take_card(gs.storage, i)
                    ELSE SwapRemove(gs.storage, i)
    IN
    BuyDone(gs, buy, is_free_buy, shop1, storage1,
            BuyPay([player EXCEPT !.discard = Append(@, to_card(bcard))],
                   player.hand, buy.cards, SelectSeq(buy.cards, IsSingle)))

\* BuyChecked without the check of the Shop's room.
BuyCheckedAnyShop(gs, buy, bcard, bucks, is_free_buy) ==
    IF bucks < bcard.cost /\ ~is_free_buy THEN {RErr(gs, "Not enough gold")}
    ELSE IF ~is_free_buy /\ ~curr_player(gs).can_buy
        THEN {RErr(gs, "Can only buy one card per turn")}
    ELSE BuyTake(gs, buy, bcard, is_free_buy)

\* handle_buy once the payment is summed and its indices are known in range.
BuyChecked(gs, buy, bcard, bucks, is_free_buy) ==
    IF bucks < bcard.cost /\ ~is_free_buy THEN {RErr(gs, "Not enough gold")}
    ELSE IF ~is_free_buy /\ ~curr_player(gs).can_buy
        THEN {RErr(gs, "Can only buy one card per turn")}
    ELSE IF ~is_free_buy /\ buy.index.where = "Storage" /\ ~has_open_shop(gs)
        THEN {RErr(gs, "Cannot buy from storage while shop is full")}
    ELSE BuyTake(gs, buy, bcard, is_free_buy)

BuyWith(gs, buy, bcard, bucks) ==
    BuyChecked(gs, buy, bcard, bucks,
               /\ bucks < bcard.cost
               /\ Len(buy.cards) = 1
               /\ At(curr_player(gs).hand, buy.cards[1]).action = FreeBuy)

\* The u8 sum of the payment: one value, or on overflow a panic (-1) in a
\* build with overflow checks and the wrapped sum in one without.
BuySums(bucks) == IF bucks < U8 THEN {bucks} ELSE {-1, bucks % U8}

\* handle_buy
handle_buy(gs, buy) ==
    LET lst == IF buy.index.where = "Shop" THEN gs.shop ELSE gs.storage
        player == curr_player(gs)
        bucks == SeqSum([k \in 1..Len(buy.cards) |-> gold_value(At(player.hand, buy.cards[k]))])
               + SeqSum([k \in 1..Len(buy.tokens) |-> token_gold_value(At(player.tokens, buy.tokens[k]))])
    IN
    IF ~InRange(lst, buy.index.i) THEN {RPanic(gs)}
    ELSE IF At(lst, buy.index.i).quantity = 0 THEN {RErr(gs, "Card is out of stock")}
    ELSE IF \/ \E k \in DOMAIN buy.cards : ~InRange(player.hand, buy.cards[k])
            \/ \E k \in DOMAIN buy.tokens : ~InRange(player.tokens, buy.tokens[k])
        THEN {RPanic(gs)}
    ELSE UNION {IF b < 0 THEN {RPanic(gs)}
                ELSE BuyWith(gs, buy, At(lst, buy.index.i), b) : b \in BuySums(bucks)}

\* handle_trash that leaves the allowance as it was.
handle_trash_keeps_allowance(gs, trash) ==
    LET player == curr_player(gs)
        t == trash_cards(player, trash)
    IN
    IF Len(trash) > player.trashes THEN RErr(gs, "Cannot trash more cards than allowed")
    ELSE IF t.panic THEN RPanic(gs)
    ELSE ROk(SetCurr(gs, t.p))

\* handle_trash with the allowance checked after the cards are gone.
handle_trash_then_check(gs, trash) ==
    LET player == curr_player(gs)
        t == trash_cards(player, trash)
    IN
    IF t.panic THEN RPanic(gs)
    ELSE IF Len(trash) > player.trashes
        THEN RErr(SetCurr(gs, t.p), "Cannot trash more cards than allowed")
    ELSE ROk(SetCurr(gs, [t.p EXCEPT !.trashes = player.trashes - Len(trash)]))

handle_trash(gs, trash) ==
    LET player == curr_player(gs)
        t == trash_cards(player, trash)
    IN
    IF Len(trash) > player.trashes THEN RErr(gs, "Cannot trash more cards than allowed")
    ELSE IF t.panic THEN RPanic(gs)
    ELSE ROk(SetCurr(gs, [t.p EXCEPT !.trashes = player.trashes - Len(trash)]))

\* ------------------------------------------------------------------------
\* handle_move
\* ------------------------------------------------------------------------
\* u8 addition: the wrapped sum, and whether it overflowed.
AddU8(a, b) == (a + b) % U8
Overflows(a, b) == a + b >= U8

MoveTypeIdx(terrain) ==
    CASE terrain = "Jungle" -> 1 [] terrain = "Desert" -> 2 [] terrain = "Water" -> 3

IsMoveTerrain(terrain) == terrain \in {"Jungle", "Desert", "Water"}

\* The state of the walk over mv.path before any step.
WalkStart(gs) ==
    [status |-> "ok", error |-> "", pos |-> curr_player(gs).position,
     board_idx |-> node_at(curr_player(gs).position).board_idx,
     move_cost |-> <<0, 0, 0>>, card_cost |-> 0, broken_barrier |-> -1,
     visited_cave |-> <<>>, ignore_idx |-> -1, overflow |-> FALSE]

\* The body of the loop over mv.path once the next node and the barrier on
\* the way to it (or -1) are looked up.
WalkOnto(gs, mv, w, path_idx, next_pos, next_node, barrier_idx) ==
    LET next_board_idx == next_node.board_idx
        bar == At(gs.barriers, barrier_idx)
        AddMove(terrain, cost) ==
            [w EXCEPT !.move_cost[MoveTypeIdx(terrain)] = AddU8(@, cost),
                      !.overflow = @ \/ Overflows(w.move_cost[MoveTypeIdx(terrain)], cost)]
        AddCard(cost) ==
            [w EXCEPT !.card_cost = AddU8(@, cost),
                      !.overflow = @ \/ Overflows(w.card_cost, cost)]
        Fail(msg) == [w EXCEPT !.status = "err", !.error = msg]
        \* the walk after the terrain of the next node is accounted for
        onto == IF IsMoveTerrain(next_node.terrain)
                    THEN AddMove(next_node.terrain, next_node.cost)
                ELSE IF next_node.terrain = "Cave"
                    THEN [w EXCEPT !.visited_cave = next_pos, !.ignore_idx = path_idx]
                ELSE AddCard(next_node.cost)
        dest == IF next_node.terrain = "Cave" THEN w.pos ELSE next_pos
        share == AnyToken(curr_player(gs).tokens, mv.tokens, "ShareHex")
    IN
    IF next_node = NoNode THEN Fail("No node at position")
    ELSE IF barrier_idx >= 0 THEN
        IF IsMoveTerrain(bar.terrain) THEN
            [AddMove(bar.terrain, bar.cost) EXCEPT
                !.broken_barrier = barrier_idx, !.ignore_idx = path_idx,
                !.board_idx = next_board_idx]
        ELSE IF bar.terrain = "Swamp" THEN
            [AddCard(bar.cost) EXCEPT
                !.broken_barrier = barrier_idx, !.ignore_idx = path_idx,
                !.board_idx = next_board_idx]
        ELSE Fail("Invalid barrier")
    ELSE IF next_node.terrain = "Invalid" THEN Fail("Cannot move onto invalid terrain")
    ELSE IF onto.visited_cave = <<>> /\ is_occupied(gs, dest) /\ share = "panic"
        THEN [w EXCEPT !.status = "panic"]
    ELSE IF onto.visited_cave = <<>> /\ is_occupied(gs, dest) /\ share = "no"
        THEN Fail("Cannot move to occupied node")
    ELSE [onto EXCEPT !.pos = dest, !.board_idx = next_board_idx]

\* The barrier between the walker's board and the node's, or -1.
StepBarrier(gs, w, next_node) == barrier_index(gs, w.board_idx, next_node.board_idx)

\* One iteration of the loop over mv.path (path_idx is 0-based).
StepFrom(gs, mv, w, path_idx, next_pos) ==
    WalkOnto(gs, mv, w, path_idx, next_pos, node_at(next_pos),
             StepBarrier(gs, w, node_at(next_pos)))

WalkStep(gs, mv, w, path_idx) ==
    StepFrom(gs, mv, w, path_idx, neighbor_coord(At(mv.path, path_idx), w.pos))

RECURSIVE WalkPath(_, _, _, _)
WalkPath(gs, mv, w, path_idx) ==
    IF path_idx >= Len(mv.path) \/ w.status # "ok" THEN w
    ELSE WalkPath(gs, mv, WalkStep(gs, mv, w, path_idx), path_idx + 1)

\* MoveAction::is_free_move
is_free_move(mv, player) ==
    IF Len(mv.cards) = 1 /\ InRange(player.hand, mv.cards[1])
    THEN At(player.hand, mv.cards[1]).action = FreeMove
    ELSE IF Len(mv.tokens) = 1 /\ InRange(player.tokens, mv.tokens[1])
    THEN At(player.tokens, mv.tokens[1]).kind = "FreeMove"
    ELSE FALSE

\* give_bonus handing out the bottom token of the cave's stack.
give_bonus_bottom(gs, pos, ignore_idx) ==
    LET player == curr_player(gs)
        found == \E k \in DOMAIN gs.bonuses : gs.bonuses[k].pos = pos
        k == CHOOSE j \in DOMAIN gs.bonuses :
                 /\ gs.bonuses[j].pos = pos
                 /\ \A h \in 1..(j - 1) : gs.bonuses[h].pos # pos
        stack == gs.bonuses[k].tokens
    IN
    IF ~found THEN RErr(gs, "No cave at position")
    ELSE IF stack = <<>> THEN RErr(gs, "No bonus tokens remaining in cave")
    ELSE RIgnore([SetCurr(gs, [player EXCEPT
                        !.tokens = Append(@, stack[1]),
                        !.visited_caves = Append(@, pos)])
                    EXCEPT !.bonuses[k].tokens = Tail(stack)],
                 ignore_idx)

\* give_bonus: the top token of the cave's stack goes to the current player.
give_bonus(gs, pos, ignore_idx) ==
    LET player == curr_player(gs)
        found == \E k \in DOMAIN gs.bonuses : gs.bonuses[k].pos = pos
        k == CHOOSE j \in DOMAIN gs.bonuses :
                 /\ gs.bonuses[j].pos = pos
                 /\ \A h \in 1..(j - 1) : gs.bonuses[h].pos # pos
        stack == gs.bonuses[k].tokens
    IN
    IF ~found THEN RErr(gs, "No cave at position")
    ELSE IF stack = <<>> THEN RErr(gs, "No bonus tokens remaining in cave")
    ELSE RIgnore([SetCurr(gs, [player EXCEPT
                        !.tokens = Append(@, stack[Len(stack)]),
                        !.visited_caves = Append(@, pos)])
                    EXCEPT !.bonuses[k].tokens = SubSeq(stack, 1, Len(stack) - 1)],
                 ignore_idx)

\* The token-only branch: the first token that is refused decides.
RECURSIVE CheckMoveTokens(_, _, _)
CheckMoveTokens(tokens, idxs, move_cost) ==
    IF idxs = <<>> THEN "ok"
    ELSE IF ~InRange(tokens, idxs[1]) THEN "panic"
    ELSE LET tok == At(tokens, idxs[1]) IN
         IF tok.kind \in {"Jungle", "Desert", "Water"} THEN
             IF move_cost[MoveTypeIdx(tok.kind)] > tok.v THEN "Not enough token movement"
             ELSE CheckMoveTokens(tokens, Tail(idxs), move_cost)
         ELSE IF tok.kind \in {"FreeMove", "ShareHex"}
             THEN CheckMoveTokens(tokens, Tail(idxs), move_cost)
         ELSE IF tok.kind = "SwapSymbol" THEN "Only cards can have their symbols swapped"
         ELSE "Cannot use token to move"

\* MoveUpdate with the memory of visited caves kept wherever the move ends.
MoveUpdateKeepsCaves(gs, mv, w, paid) ==
    LET toks == RemoveTokens(paid.p.tokens, mv.tokens)
        broken == At(gs.barriers, w.broken_barrier)
        p3 == [paid.p EXCEPT
                 !.tokens = toks.tokens,
                 !.broken_barriers =
                     IF w.broken_barrier >= 0
                     THEN Append(@, [terrain |-> broken.terrain, cost |-> broken.cost])
                     ELSE @]
        bars == IF w.broken_barrier >= 0 THEN SwapRemove(gs.barriers, w.broken_barrier)
                ELSE gs.barriers
    IN
    IF paid.panic \/ toks.panic THEN RPanic(gs)
    ELSE RIgnore([SetCurr(gs, p3) EXCEPT !.barriers = bars], w.ignore_idx)

\* MoveUpdate that removes the broken barrier and records nothing.
MoveUpdateUnrecorded(gs, mv, w, paid) ==
    LET IsNear(cave_pos) == is_adjacent(w.pos, cave_pos)
        toks == RemoveTokens(paid.p.tokens, mv.tokens)
        p3 == [paid.p EXCEPT
                 !.visited_caves = SelectSeq(@, IsNear),
                 !.tokens = toks.tokens]
        bars == IF w.broken_barrier >= 0 THEN SwapRemove(gs.barriers, w.broken_barrier)
                ELSE gs.barriers
    IN
    IF paid.panic \/ toks.panic THEN RPanic(gs)
    ELSE RIgnore([SetCurr(gs, p3) EXCEPT !.barriers = bars], w.ignore_idx)

\* MoveUpdate that records the broken barrier but leaves it in the list.
MoveUpdateKeepsBarrier(gs, mv, w, paid) ==
    LET IsNear(cave_pos) == is_adjacent(w.pos, cave_pos)
        toks == RemoveTokens(paid.p.tokens, mv.tokens)
        broken == At(gs.barriers, w.broken_barrier)
        p3 == [paid.p EXCEPT
                 !.visited_caves = SelectSeq(@, IsNear),
                 !.tokens = toks.tokens,
                 !.broken_barriers =
                     IF w.broken_barrier >= 0
                     THEN Append(@, [terrain |-> broken.terrain, cost |-> broken.cost])
                     ELSE @]
    IN
    IF paid.panic \/ toks.panic THEN RPanic(gs)
    ELSE RIgnore(SetCurr(gs, p3), w.ignore_idx)

\* The update at the end of handle_move, the payment found valid: the cards
\* are trashed or marked played (paid), then caves, tokens and the barrier.
MoveUpdate(gs, mv, w, paid) ==
    LET IsNear(cave_pos) == is_adjacent(w.pos, cave_pos)
        toks == RemoveTokens(paid.p.tokens, mv.tokens)
        broken == At(gs.barriers, w.broken_barrier)
        p3 == [paid.p EXCEPT
                 !.visited_caves = SelectSeq(@, IsNear),
                 !.tokens = toks.tokens,
                 !.broken_barriers =
                     IF w.broken_barrier >= 0
                     THEN Append(@, [terrain |-> broken.terrain, cost |-> broken.cost])
                     ELSE @]
        bars == IF w.broken_barrier >= 0 THEN SwapRemove(gs.barriers, w.broken_barrier)
                ELSE gs.barriers
    IN
    IF paid.panic \/ toks.panic THEN RPanic(gs)
    ELSE RIgnore([SetCurr(gs, p3) EXCEPT !.barriers = bars], w.ignore_idx)

MovePaid(gs, mv, w, trash) ==
    MoveUpdate(gs, mv, w,
               IF trash
               THEN trash_cards([curr_player(gs) EXCEPT !.position = w.pos], mv.cards)
               ELSE mark_played([curr_player(gs) EXCEPT !.position = w.pos], mv.cards))

\* The card lacks the movement of some type the path costs.
LacksMovementStrict(move_cost, movement) ==
    \E t \in 1..3 : move_cost[t] >= movement[t]

LacksMovement(move_cost, movement) ==
    \E t \in 1..3 : move_cost[t] > movement[t]

\* MoveVerdict that lets a path of any length be paid in cards.
MoveVerdictAnyLength(gs, mv, w, free, card_cost, move_cost) ==
    LET tokens == curr_player(gs).tokens
        hand == curr_player(gs).hand
        path_len == Len(mv.path)
        free_bar == At(gs.barriers, w.broken_barrier)
        total_cost == (move_cost[1] + move_cost[2] + move_cost[3]) % U8
        max_cost == SeqMax(move_cost)
        card == At(hand, mv.cards[1])
        swap == AnyToken(tokens, mv.tokens, "SwapSymbol")
        double == AnyToken(tokens, mv.tokens, "DoubleUse")
        tok_check == CheckMoveTokens(tokens, mv.tokens, move_cost)
        num_share_hex ==
            Cardinality({k \in DOMAIN mv.tokens : At(tokens, mv.tokens[k]).kind = "ShareHex"})
    IN
    IF free /\ path_len # 1 THEN "Only one step allowed for free movement"
    ELSE IF free /\ w.broken_barrier >= 0 /\ IsMoveTerrain(free_bar.terrain)
        THEN "Cannot break barriers with a free move"
    ELSE IF free /\ w.broken_barrier >= 0 /\ free_bar.terrain # "Swamp"
        THEN "Invalid barrier"
    ELSE IF card_cost > 0 THEN
        IF Len(mv.cards) # card_cost THEN "Need cards to discard/trash"
        ELSE IF Len(mv.tokens) > 1 THEN "Only the ShareHex token can be used"
        ELSE IF Len(mv.tokens) = 1 /\ ~InRange(tokens, mv.tokens[1]) THEN "panic"
        ELSE IF Len(mv.tokens) = 1 /\ At(tokens, mv.tokens[1]).kind # "ShareHex"
            THEN "Only the ShareHex token can be used"
        ELSE "ok"
    ELSE IF total_cost # max_cost THEN "Path must contain a single movement type"
    ELSE IF mv.cards # <<>> THEN
        IF Len(mv.cards) # 1 THEN "Must use a single card to move"
        ELSE IF ~InRange(hand, mv.cards[1]) THEN "panic"
        ELSE IF swap = "panic" THEN "panic"
        ELSE IF swap = "yes" /\ SeqMax(card.movement) < max_cost
            THEN "Not enough card movement"
        ELSE IF swap = "no" /\ LacksMovement(move_cost, card.movement)
            THEN "Not enough card movement"
        ELSE IF card.single_use /\ double = "panic" THEN "panic"
        ELSE "ok"
    ELSE IF mv.tokens # <<>> THEN
        IF tok_check # "ok" THEN tok_check
        ELSE IF num_share_hex > 1 THEN "Can only use one ShareHex token per move"
        ELSE IF Len(mv.tokens) - num_share_hex # 1
            THEN "Must use exactly one movement token to move"
        ELSE "ok"
    ELSE "Must use cards or tokens to move"

\* The validation of the payment against the costs to pay: "ok", "panic", or
\* the error of the first check that fails.
MoveVerdict(gs, mv, w, free, card_cost, move_cost) ==
    LET tokens == curr_player(gs).tokens
        hand == curr_player(gs).hand
        path_len == Len(mv.path)
        free_bar == At(gs.barriers, w.broken_barrier)
        total_cost == (move_cost[1] + move_cost[2] + move_cost[3]) % U8
        max_cost == SeqMax(move_cost)
        card == At(hand, mv.cards[1])
        swap == AnyToken(tokens, mv.tokens, "SwapSymbol")
        double == AnyToken(tokens, mv.tokens, "DoubleUse")
        tok_check == CheckMoveTokens(tokens, mv.tokens, move_cost)
        num_share_hex ==
            Cardinality({k \in DOMAIN mv.tokens : At(tokens, mv.tokens[k]).kind = "ShareHex"})
    IN
    IF free /\ path_len # 1 THEN "Only one step allowed for free movement"
    ELSE IF free /\ w.broken_barrier >= 0 /\ IsMoveTerrain(free_bar.terrain)
        THEN "Cannot break barriers with a free move"
    ELSE IF free /\ w.broken_barrier >= 0 /\ free_bar.terrain # "Swamp"
        THEN "Invalid barrier"
    ELSE IF card_cost > 0 THEN
        IF path_len # 1 THEN "Can only move one step when discarding/trashing cards"
        ELSE IF Len(mv.cards) # card_cost THEN "Need cards to discard/trash"
        ELSE IF Len(mv.tokens) > 1 THEN "Only the ShareHex token can be used"
        ELSE IF Len(mv.tokens) = 1 /\ ~InRange(tokens, mv.tokens[1]) THEN "panic"
        ELSE IF Len(mv.tokens) = 1 /\ At(tokens, mv.tokens[1]).kind # "ShareHex"
            THEN "Only the ShareHex token can be used"
        ELSE "ok"
    ELSE IF total_cost # max_cost THEN "Path must contain a single movement type"
    ELSE IF mv.cards # <<>> THEN
        IF Len(mv.cards) # 1 THEN "Must use a single card to move"
        ELSE IF ~InRange(hand, mv.cards[1]) THEN "panic"
        ELSE IF swap = "panic" THEN "panic"
        ELSE IF swap = "yes" /\ SeqMax(card.movement) < max_cost
            THEN "Not enough card movement"
        ELSE IF swap = "no" /\ LacksMovement(move_cost, card.movement)
            THEN "Not enough card movement"
        ELSE IF card.single_use /\ double = "panic" THEN "panic"
        ELSE "ok"
    ELSE IF mv.tokens # <<>> THEN
        IF tok_check # "ok" THEN tok_check
        ELSE IF num_share_hex > 1 THEN "Can only use one ShareHex token per move"
        ELSE IF Len(mv.tokens) - num_share_hex # 1
            THEN "Must use exactly one movement token to move"
        ELSE "ok"
    ELSE "Must use cards or tokens to move"

\* MoveDone trashing a single-use card whatever the card paid for.
MoveDoneTrashesSingleUse(gs, mv, w, card_cost, verdict) ==
    LET is_single_use ==
            /\ mv.cards # <<>>
            /\ InRange(curr_player(gs).hand, mv.cards[1])
            /\ At(curr_player(gs).hand, mv.cards[1]).single_use
            /\ AnyToken(curr_player(gs).tokens, mv.tokens, "DoubleUse") = "no"
    IN
    IF verdict = "panic" THEN RPanic(gs)
    ELSE IF verdict # "ok" THEN RErr(gs, verdict)
    ELSE MovePaid(gs, mv, w,
                  is_single_use \/ (card_cost > 0 /\ with_terrain(w.pos, "Village")))

\* The result of handle_move given the verdict on the payment.
MoveDone(gs, mv, w, card_cost, verdict) ==
    LET is_single_use ==
            /\ card_cost = 0
            /\ mv.cards # <<>>
            /\ At(curr_player(gs).hand, mv.cards[1]).single_use
            /\ AnyToken(curr_player(gs).tokens, mv.tokens, "DoubleUse") = "no"
    IN
    IF verdict = "panic" THEN RPanic(gs)
    ELSE IF verdict # "ok" THEN RErr(gs, verdict)
    ELSE MovePaid(gs, mv, w,
                  is_single_use \/ (card_cost > 0 /\ with_terrain(w.pos, "Village")))

\* The costs to pay: zeroed by a free move, but for the cost of a Swamp
\* barrier.  The u8 sum of the three movement costs overflows into a panic or
\* a wrapped sum, by build.
MoveCharge(gs, mv, w, free, card_cost, move_cost) ==
    IF ~free /\ card_cost = 0 /\ move_cost[1] + move_cost[2] + move_cost[3] >= U8
    THEN {RPanic(gs),
          MoveDone(gs, mv, w, card_cost, MoveVerdict(gs, mv, w, free, card_cost, move_cost))}
    ELSE {MoveDone(gs, mv, w, card_cost, MoveVerdict(gs, mv, w, free, card_cost, move_cost))}

MoveFree(gs, mv, w, free) ==
    MoveCharge(gs, mv, w, free,
               IF ~free THEN w.card_cost
               ELSE IF w.broken_barrier >= 0
                       /\ At(gs.barriers, w.broken_barrier).terrain = "Swamp"
                   THEN At(gs.barriers, w.broken_barrier).cost
               ELSE 0,
               IF free THEN <<0, 0, 0>> ELSE w.move_cost)

\* The part of handle_move after the walk and the cave check: validation of
\* the payment, then the update.
MovePay(gs, mv, w) == MoveFree(gs, mv, w, is_free_move(mv, curr_player(gs)))

\* handle_move after the walk w over the path.
MoveAfterWalk(gs, mv, w) ==
    LET player == curr_player(gs)
        rest ==
            IF w.status = "panic" THEN {RPanic(gs)}
            ELSE IF w.status = "err" THEN {RErr(gs, w.error)}
            ELSE IF w.visited_cave # <<>> THEN
                IF Len(mv.path) # 1 THEN {RErr(gs, "Can only visit adjacent caves")}
                ELSE IF mv.cards # <<>> THEN {RErr(gs, "Cannot use cards to visit a cave")}
                ELSE IF \E k \in DOMAIN player.visited_caves :
                            player.visited_caves[k] = w.visited_cave
                    THEN {RErr(gs, "Already visited this cave")}
                ELSE {give_bonus(gs, w.visited_cave, w.ignore_idx)}
            ELSE MovePay(gs, mv, w)
    IN
    IF w.overflow THEN {RPanic(gs)} \cup rest ELSE rest

\* handle_move: every result it can have.  An overflow of a u8 cost
\* accumulator panics in a build with overflow checks and wraps in one without.
handle_move(gs, mv) ==
    IF mv.path = <<>> THEN {RErr(gs, "Must move at least once")}
    ELSE IF ~HasNode(curr_player(gs).position) THEN {RErr(gs, "Invalid position")}
    ELSE MoveAfterWalk(gs, mv, WalkPath(gs, mv, WalkStart(gs), 0))

\* handle_draw trashing a single-use card even when a DoubleUse token is spent.
handle_draw_ignores_double_use(gs, draw) ==
    LET player == curr_player(gs)
        hand == player.hand
        hand_size == Len(hand)
        tokens == player.tokens
        i == draw.card
        tidx == draw.token
        card == At(hand, i)
        tok == At(tokens, tidx)
        is_single_use == card.single_use
        Spend(p) == LET q == IF is_single_use THEN trash_cards(p, <<i>>).p
                                              ELSE mark_played(p, <<i>>).p
                    IN IF tidx >= 0 THEN [q EXCEPT !.tokens = SwapRemove(@, tidx)] ELSE q
        DropToken(p) == [p EXCEPT !.tokens = SwapRemove(@, tidx)]
    IN
    IF i >= 0 THEN
        IF ~InRange(hand, i) THEN {RErr(gs, "Invalid card index")}
        ELSE IF tidx >= 0 /\ ~InRange(tokens, tidx) THEN {RErr(gs, "Invalid token index")}
        ELSE IF tidx >= 0 /\ tok.kind # "DoubleUse"
            THEN {RErr(gs, "Cannot use token when drawing cards with a card")}
        ELSE IF card.action.kind = "Draw" THEN
            {ROk(SetCurr(gs, Spend(q))) : q \in fill_hand(player, hand_size + card.action.n)}
        ELSE IF card.action.kind = "DrawAndTrash" THEN
            {ROk(SetCurr(gs, Spend([q EXCEPT !.trashes = @ + card.action.n]))) :
                q \in fill_hand(player, hand_size + card.action.n)}
        ELSE {RErr(gs, "Cannot use card to draw more cards")}
    ELSE IF tidx >= 0 THEN
        IF ~InRange(tokens, tidx) THEN {RErr(gs, "Invalid token index")}
        ELSE IF tok.kind = "DrawCard" THEN
            {ROk(SetCurr(gs, DropToken(q))) : q \in fill_hand(player, hand_size + 1)}
        ELSE IF tok.kind = "TrashCard" THEN
            {ROk(SetCurr(gs, DropToken([player EXCEPT !.trashes = @ + 1])))}
        ELSE IF tok.kind = "ReplaceHand" THEN
            {ROk(SetCurr(gs, DropToken(q))) : q \in replace_hand(player)}
        ELSE {RErr(gs, "Cannot use token to draw cards")}
    ELSE {RErr(gs, "Must specify a card or token to use for drawing cards")}

\* ------------------------------------------------------------------------
\* handle_draw
\* ------------------------------------------------------------------------
\* An Option<usize> is the index, or -1 for None.
handle_draw(gs, draw) ==
    LET player == curr_player(gs)
        hand == player.hand
        hand_size == Len(hand)
        tokens == player.tokens
        i == draw.card
        tidx == draw.token
        card == At(hand, i)
        tok == At(tokens, tidx)
        is_single_use == card.single_use /\ tidx < 0
        Spend(p) == LET q == IF is_single_use THEN trash_cards(p, <<i>>).p
                                              ELSE mark_played(p, <<i>>).p
                    IN IF tidx >= 0 THEN [q EXCEPT !.tokens = SwapRemove(@, tidx)] ELSE q
        DropToken(p) == [p EXCEPT !.tokens = SwapRemove(@, tidx)]
    IN
    IF i >= 0 THEN
        IF ~InRange(hand, i) THEN {RErr(gs, "Invalid card index")}
        ELSE IF tidx >= 0 /\ ~InRange(tokens, tidx) THEN {RErr(gs, "Invalid token index")}
        ELSE IF tidx >= 0 /\ tok.kind # "DoubleUse"
            THEN {RErr(gs, "Cannot use token when drawing cards with a card")}
        ELSE IF card.action.kind = "Draw" THEN
            {ROk(SetCurr(gs, Spend(q))) : q \in fill_hand(player, hand_size + card.action.n)}
        ELSE IF card.action.kind = "DrawAndTrash" THEN
            {ROk(SetCurr(gs, Spend([q EXCEPT !.trashes = @ + card.action.n]))) :
                q \in fill_hand(player, hand_size + card.action.n)}
        ELSE {RErr(gs, "Cannot use card to draw more cards")}
    ELSE IF tidx >= 0 THEN
        IF ~InRange(tokens, tidx) THEN {RErr(gs, "Invalid token index")}
        ELSE IF tok.kind = "DrawCard" THEN
            {ROk(SetCurr(gs, DropToken(q))) : q \in fill_hand(player, hand_size + 1)}
        ELSE IF tok.kind = "TrashCard" THEN
            {ROk(SetCurr(gs, DropToken([player EXCEPT !.trashes = @ + 1])))}
        ELSE IF tok.kind = "ReplaceHand" THEN
            {ROk(SetCurr(gs, DropToken(q))) : q \in replace_hand(player)}
        ELSE {RErr(gs, "Cannot use token to draw cards")}
    ELSE {RErr(gs, "Must specify a card or token to use for drawing cards")}

\* ------------------------------------------------------------------------
\* process_action
\* ------------------------------------------------------------------------
handle_discard(gs, cards) ==
    LET t == discard_cards(curr_player(gs), cards) IN
    IF t.panic THEN RPanic(gs) ELSE ROk(SetCurr(gs, t.p))

\* FinishTurn that counts a round at every turn.
handle_finish_turn_counts_each(gs) ==
    {LET g1 == [SetCurr(gs, q) EXCEPT !.round_idx = @ + 1]
         next_idx == gs.curr_player_idx + 1
     IN IF next_idx = Len(gs.players)
        THEN LET g2 == [g1 EXCEPT !.curr_player_idx = 0]
             IN IF any_finished_player(g2) THEN RGameOver(g2) ELSE ROk(g2)
        ELSE ROk([g1 EXCEPT !.curr_player_idx = next_idx]) :
     q \in finish_turn(curr_player(gs))}

handle_finish_turn(gs) ==
    {LET g1 == SetCurr(gs, q)
         next_idx == gs.curr_player_idx + 1
     IN IF next_idx = Len(gs.players)
        THEN LET g2 == [g1 EXCEPT !.round_idx = @ + 1, !.curr_player_idx = 0]
             IN IF any_finished_player(g2) THEN RGameOver(g2) ELSE ROk(g2)
        ELSE ROk([g1 EXCEPT !.curr_player_idx = next_idx]) :
     q \in finish_turn(curr_player(gs))}

process_action(gs, act) ==
    CASE act.kind = "BuyCard" -> handle_buy(gs, act)
      [] act.kind = "Move" -> handle_move(gs, act)
      [] act.kind = "Draw" -> handle_draw(gs, act)
      [] act.kind = "Trash" -> {handle_trash(gs, act.cards)}
      [] act.kind = "Discard" -> {handle_discard(gs, act.cards)}
      [] act.kind = "FinishTurn" -> handle_finish_turn(gs)

\* ------------------------------------------------------------------------
\* Construction (GameState::new, Player::new) and the starting snapshots
\* ------------------------------------------------------------------------
scout == regular(2, <<2, 0, 0>>)
jack_of_all_trades == regular(4, <<1, 1, 1>>)
photographer == regular(4, <<0, 2, 0>>)
trailblazer == regular(6, <<3, 0, 0>>)
treasure_chest == single_use(6, <<0, 4, 0>>)
transmitter == action_card(8, FreeBuy, TRUE)
captain == regular(4, <<0, 0, 3>>)
compass == action_card(4, DrawN(3), TRUE)
journalist == regular(6, <<0, 3, 0>>)
giant_machete == single_use(6, <<6, 0, 0>>)
travel_log == action_card(6, DrawAndTrash(2), TRUE)
adventurer == regular(8, <<2, 2, 2>>)
propeller_plane == single_use(8, <<4, 4, 4>>)
cartographer == action_card(8, DrawN(2), FALSE)
scientist == action_card(8, DrawAndTrash(1), FALSE)
millionaire == regular(10, <<0, 4, 0>>)
pioneer == regular(10, <<5, 0, 0>>)
native == action_card(10, FreeMove, FALSE)

NewShop ==
    <<scout, jack_of_all_trades, photographer, trailblazer, treasure_chest, transmitter>>

NewStorage ==
    <<captain, compass, journalist, giant_machete, travel_log, adventurer,
      propeller_plane, cartographer, scientist, millionaire, pioneer, native>>

ALL_BARRIER_TYPES ==
    << <<"Jungle", 1>>, <<"Jungle", 2>>, <<"Desert", 1>>, <<"Water", 1>>,
       <<"Swamp", 1>>, <<"Swamp", 2>> >>

\* The barrier new() puts between boards i and i + 1.
MkBarrier(i, type) ==
    [from_board |-> i, to_board |-> i + 1, terrain |-> type[1], cost |-> type[2]]

\* Player::new for one outcome of the shuffle: the last HAND_SIZE cards of
\* the shuffled deck become the hand.
NewPlayer(position, shuffled) ==
    MkPlayer(position, SubSeq(shuffled, 1, HAND_SIZE),
             SubSeq(shuffled, HAND_SIZE + 1, Len(shuffled)),
             <<>>, <<>>, <<>>, 0, TRUE, <<>>, <<>>)

\* A listing of which some copies are sold.
Left(bcard, quantity) == [bcard EXCEPT !.quantity = quantity]

CavePos == <<1, 1>>

\* A game as new() leaves it on this layout, for one outcome of its shuffles.
FreshGame ==
    MkGame(<< NewPlayer(<<0, 0>>, <<explorer, traveler, sailor, traveler,
                                    traveler, explorer, traveler, explorer>>),
              NewPlayer(<<0, 1>>, <<traveler, traveler, explorer, traveler,
                                    explorer, sailor, explorer, traveler>>) >>,
           NewShop, NewStorage,
           <<MkBarrier(0, ALL_BARRIER_TYPES[1])>>,
           <<[pos |-> CavePos,
              tokens |-> <<Tok("DrawCard", 0), Tok("ShareHex", 0),
                           Tok("Jungle", 2), Tok("Desert", 1)>>]>>,
           0, 0)

\* Snapshots of games in progress.  Each is a position play can reach from
\* new(): cards come from the starting deck or the market, tokens from the
\* cave, and a player stands beyond the barrier only once it is broken.

\* Early: both players near the cave, player 0 holding action cards (the
\* native was taken from Storage with a transmitter).
EarlyGame ==
    MkGame(<< MkPlayer(<<1, 0>>, <<explorer, sailor>>,
                       <<to_card(native), to_card(transmitter),
                         to_card(treasure_chest), traveler>>,
                       <<>>, <<traveler, explorer>>,
                       <<Tok("ShareHex", 0), Tok("Desert", 1)>>,
                       0, TRUE, <<>>, <<>>),
              MkPlayer(<<2, 0>>, <<explorer, explorer>>,
                       <<traveler, to_card(scout), sailor, traveler>>,
                       <<>>, <<traveler>>, <<>>, 0, TRUE, <<>>, <<>>) >>,
           <<Left(scout, 2), jack_of_all_trades, photographer, trailblazer,
             Left(treasure_chest, 2), Left(transmitter, 1)>>,
           <<captain, compass, journalist, giant_machete, travel_log, adventurer,
             propeller_plane, cartographer, scientist, millionaire, pioneer,
             Left(native, 2)>>,
           <<MkBarrier(0, ALL_BARRIER_TYPES[1])>>,
           <<[pos |-> CavePos, tokens |-> <<Tok("FreeMove", 0), Tok("SwapSymbol", 0)>>]>>,
           0, 3)

\* Middle: player 0 stands at the barrier, next to the village and the cave.
\* The scouts are sold out; compass and scientist were taken from Storage
\* with transmitters.
MiddleGame ==
    MkGame(<< MkPlayer(<<2, 0>>, <<traveler>>,
                       <<to_card(scout), explorer, to_card(compass), to_card(scientist)>>,
                       <<>>, <<sailor, explorer>>,
                       <<Tok("Jungle", 2), Tok("DoubleUse", 0), Tok("TrashCard", 0)>>,
                       0, TRUE, <<CavePos>>, <<>>),
              MkPlayer(<<1, 0>>, <<traveler, to_card(scout)>>,
                       <<explorer, to_card(treasure_chest), traveler, to_card(scout)>>,
                       <<>>, <<>>, <<Tok("ReplaceHand", 0)>>, 0, TRUE, <<>>, <<>>) >>,
           <<jack_of_all_trades, photographer, trailblazer,
             Left(treasure_chest, 2), Left(transmitter, 1)>>,
           <<captain, Left(compass, 2), journalist, giant_machete, travel_log, adventurer,
             propeller_plane, cartographer, Left(scientist, 2), millionaire, pioneer, native>>,
           <<MkBarrier(0, ALL_BARRIER_TYPES[5])>>,
           <<[pos |-> CavePos, tokens |-> <<Tok("Water", 1)>>]>>,
           0, 6)

\* Late: player 1 broke the barrier and is one step from the finish; player
\* 0, deck exhausted, still stands before the broken boundary; one Shop
\* listing is sold out.
LateGame ==
    MkGame(<< MkPlayer(<<2, 0>>, <<>>,
                       <<explorer, to_card(trailblazer), traveler>>,
                       <<sailor>>, <<traveler, explorer>>,
                       <<>>, 0, TRUE, <<>>, <<>>),
              MkPlayer(<<4, 0>>, <<explorer>>,
                       <<sailor, traveler, to_card(photographer), explorer>>,
                       <<>>, <<traveler>>, <<Tok("Water", 2)>>, 0, TRUE, <<>>,
                       <<[terrain |-> "Jungle", cost |-> 2]>>) >>,
           <<jack_of_all_trades, Left(photographer, 1), Left(trailblazer, 1),
             treasure_chest, transmitter>>,
           NewStorage,
           <<>>,
           <<[pos |-> CavePos, tokens |-> <<>>]>>,
           0, 9)

\* Thin: player 0 has trashed the deck down to three cards, holds both
\* ShareHex tokens, and stands next to the cave it last visited.
ThinGame ==
    MkGame(<< MkPlayer(<<1, 0>>, <<>>,
                       <<explorer, to_card(scout)>>,
                       <<traveler>>, <<>>,
                       <<Tok("ShareHex", 0), Tok("ShareHex", 0)>>,
                       0, TRUE, <<CavePos>>, <<>>),
              MkPlayer(<<2, 0>>, <<explorer, sailor>>,
                       <<traveler, explorer, traveler, traveler>>,
                       <<>>, <<explorer, traveler>>, <<>>, 0, TRUE, <<>>, <<>>) >>,
           <<Left(scout, 2), jack_of_all_trades, photographer, trailblazer,
             treasure_chest, transmitter>>,
           NewStorage,
           <<MkBarrier(0, ALL_BARRIER_TYPES[3])>>,
           <<[pos |-> CavePos, tokens |-> <<Tok("Jungle", 1), Tok("DrawCard", 0)>>]>>,
           0, 12)

\* Camp: player 0 stands between the village and a Jungle barrier with a
\* native and a giant machete taken from Storage with transmitters, and the
\* DoubleUse token of the cave it last visited.
CampGame ==
    MkGame(<< MkPlayer(<<2, 0>>, <<traveler, sailor>>,
                       <<to_card(native), to_card(giant_machete), traveler, explorer>>,
                       <<>>, <<explorer, traveler, traveler, explorer>>,
                       <<Tok("DoubleUse", 0)>>,
                       0, TRUE, <<CavePos>>, <<>>),
              MkPlayer(<<0, 1>>, <<explorer, traveler>>,
                       <<traveler, sailor, explorer, traveler>>,
                       <<>>, <<explorer, traveler>>, <<>>, 0, TRUE, <<>>, <<>>) >>,
           <<scout, jack_of_all_trades, photographer, trailblazer,
             treasure_chest, Left(transmitter, 1)>>,
           <<captain, compass, journalist, Left(giant_machete, 2), travel_log, adventurer,
             propeller_plane, cartographer, scientist, millionaire, pioneer,
             Left(native, 2)>>,
           <<MkBarrier(0, ALL_BARRIER_TYPES[2])>>,
           <<[pos |-> CavePos, tokens |-> <<Tok("Desert", 1), Tok("FreeMove", 0), Tok("Water", 1)>>]>>,
           0, 7)

\* ------------------------------------------------------------------------
\* Setting a game up (game.rs: GameState::new)
\* ------------------------------------------------------------------------
\* The generator handed to new(), as the number it is seeded to: each draw
\* reads the state and steps it.  A stand-in for the generator of the rand
\* crate, of which only this matters here: equal states give equal draws.
RngNext(rng) == (rng * 5 + 3) % 64

\* rng.random_range(0..n).
RngBelow(rng, n) == (rng \div 4) % n

Swapped(s, i, j) ==
    [k \in DOMAIN s |-> IF k = i THEN s[j] ELSE IF k = j THEN s[i] ELSE s[k]]

\* SliceRandom::shuffle: from the last place down, each place is swapped
\* with one drawn at or below it.  Gives the shuffled Vec and the generator
\* as the shuffle left it.
RECURSIVE ShuffleFrom(_, _, _)
ShuffleFrom(s, i, rng) ==
    IF i < 2 THEN [out |-> s, rng |-> rng]
    ELSE ShuffleFrom(Swapped(s, i, RngBelow(rng, i) + 1), i - 1, RngNext(rng))

shuffle(s, rng) == ShuffleFrom(s, Len(s), rng)

ALL_BONUS_TOKENS ==
    << Tok("Jungle", 1), Tok("Jungle", 1), Tok("Jungle", 2), Tok("Jungle", 2),
       Tok("Jungle", 2), Tok("Jungle", 3), Tok("Jungle", 3),
       Tok("Desert", 1), Tok("Desert", 1), Tok("Desert", 2), Tok("Desert", 2),
       Tok("Desert", 2),
       Tok("Water", 1), Tok("Water", 1), Tok("Water", 2), Tok("Water", 2),
       Tok("Water", 2),
       Tok("DrawCard", 0), Tok("DrawCard", 0), Tok("DrawCard", 0), Tok("DrawCard", 0),
       Tok("TrashCard", 0), Tok("TrashCard", 0), Tok("TrashCard", 0), Tok("TrashCard", 0),
       Tok("ReplaceHand", 0), Tok("ReplaceHand", 0), Tok("ReplaceHand", 0),
       Tok("DoubleUse", 0), Tok("DoubleUse", 0),
       Tok("ShareHex", 0), Tok("ShareHex", 0),
       Tok("FreeMove", 0), Tok("FreeMove", 0),
       Tok("SwapSymbol", 0), Tok("SwapSymbol", 0) >>

\* The deck Player::new shuffles.
StartingDeck ==
    <<explorer, explorer, explorer, traveler, traveler, traveler, traveler, sailor>>

\* load_layout: the layout of a known name, Err for any other.  The layout
\* files are not among the sources; four layouts over the
\* boards above stand for them: one board alone, three boards in a row with
\* four hexes farthest from the finish, two boards with a single farthest
\* hex, and two boards placed on top of each other.
Placed(board, rotation, q, r) == [board |-> board, rotation |-> rotation, center |-> <<q, r>>]

load_layout(name) ==
    CASE name = "first" -> [outcome |-> "Ok", error |-> "", layout |-> <<Placed("S", 0, 0, 0)>>]
      [] name = "easy1" ->
           [outcome |-> "Ok", error |-> "",
            layout |-> <<Placed("S", 0, 0, 0), Placed("C", 0, 1, 0), Placed("A", 1, 2, 0)>>]
      [] name = "easy2" ->
           [outcome |-> "Ok", error |-> "",
            layout |-> <<Placed("A", 0, 0, 0), Placed("B", 0, 2, 0)>>]
      [] name = "medium1" ->
           [outcome |-> "Ok", error |-> "",
            layout |-> <<Placed("S", 0, 0, 0), Placed("C", 0, 0, 1)>>]
      [] OTHER -> [outcome |-> "Err", error |-> "Unknown layout", layout |-> <<>>]

\* HexMap::create_named.
create_named(name) ==
    IF load_layout(name).outcome = "Err" THEN NoMap(load_layout(name).error)
    ELSE create_custom(load_layout(name).layout)

\* max_dist_indices taking every node the search reached.
max_dist_indices_reached(graph) ==
    LET Finite(k) == graph.dists[k] < I32_MAX
    IN SelectSeq([k \in DOMAIN graph.dists |-> k], Finite)

\* The indices (from 1) of the nodes at max_dist, in order.
max_dist_indices(graph) ==
    LET AtMax(k) == graph.dists[k] = graph.max_dist
    IN SelectSeq([k \in DOMAIN graph.dists |-> k], AtMax)

\* The players new() creates on the first n of the starting nodes, each
\* shuffling their deck with the generator as the one before left it.
RECURSIVE NewPlayers(_, _, _, _)
NewPlayers(nodes, starts, n, rng) ==
    IF n = 0 THEN [players |-> <<>>, rng |-> rng]
    ELSE LET deck == shuffle(StartingDeck, rng)
             rest == NewPlayers(nodes, Tail(starts), n - 1, deck.rng)
         IN [players |-> <<NewPlayer(nodes[Head(starts)].coord, deck.out)>> \o rest.players,
             rng |-> rest.rng]

\* The cave stacks new() deals from the shuffled tokens: each Cave node from
\* the k-th on, in node order, takes the last four while four are left.
RECURSIVE NewBonuses(_, _, _)
NewBonuses(nodes, k, all_tokens) ==
    IF k > Len(nodes) THEN <<>>
    ELSE IF nodes[k].terrain = "Cave" /\ Len(all_tokens) >= 4
        THEN <<[pos |-> nodes[k].coord,
                tokens |-> SubSeq(all_tokens, Len(all_tokens) - 3, Len(all_tokens))]>>
             \o NewBonuses(nodes, k + 1, SubSeq(all_tokens, 1, Len(all_tokens) - 4))
    ELSE NewBonuses(nodes, k + 1, all_tokens)

NoGameState == MkGame(<<>>, <<>>, <<>>, <<>>, <<>>, 0, 0)

NewFailed(outcome, error, map) ==
    [outcome |-> outcome, error |-> error, gs |-> NoGameState, map |-> map,
     graph |-> [dists |-> <<>>, max_dist |-> 0]]

\* new() from the barriers on, as a function of the generator the barrier
\* shuffle left: `kept` of the shuffled barrier types stand between the
\* boards.
NewSeeded(num_players, map, graph, types, kept) ==
    LET starts == max_dist_indices(graph)
        made == NewPlayers(map.nodes, starts, num_players, types.rng)
        all_tokens == shuffle(ALL_BONUS_TOKENS, made.rng)
    IN IF Len(starts) < num_players
       THEN NewFailed("Err", "Not enough distinct starting positions", map)
       ELSE [outcome |-> "Ok", error |-> "",
             gs |-> MkGame(made.players, NewShop, NewStorage,
                           [i \in 1..kept |-> MkBarrier(i - 1, types.out[i])],
                           NewBonuses(map.nodes, 1, all_tokens.out), 0, 0),
             map |-> map, graph |-> graph]

\* NewFrom shuffling decks and tokens with a generator of the thread, in
\* whatever state it is, in place of the one handed in.
NewFromThreadRng(num_players, map, graph, types, kept) ==
    {NewSeeded(num_players, map, graph, [types EXCEPT !.rng = r], kept) : r \in 0..63}

\* Every result new() can come to from the barriers on.  The decks and the
\* tokens are shuffled with the generator handed in and nothing else is
\* drawn, so there is one.
NewFrom(num_players, map, graph, types, kept) ==
    {NewSeeded(num_players, map, graph, types, kept)}

\* GameState::new(num_players, preset, rng): the results it can come to.  truncate(finish_idx - 1)
\* underflows on a one-board map: the subtraction panics where overflow is
\* checked and wraps where it is not, and the truncate then keeps all six.
new(num_players, preset, rng, checked) ==
    LET map == create_named(preset)
        graph == HexGraph_new(map.nodes, map.finish_idx)
        types == shuffle(ALL_BARRIER_TYPES, rng)
    IN IF num_players \notin 2..4
       THEN {NewFailed("Err", "Invalid number of players", NotBuilt)}
       ELSE IF map.outcome = "Err" THEN {NewFailed("Err", map.error, NotBuilt)}
       ELSE IF map.finish_idx = 0 /\ checked THEN {NewFailed("Panic", "", NotBuilt)}
       ELSE NewFrom(num_players, map, graph, types,
                    IF map.finish_idx = 0 THEN Len(ALL_BARRIER_TYPES)
                    ELSE map.finish_idx - 1)

Snapshots == {FreshGame, EarlyGame, MiddleGame, LateGame, ThinGame, CampGame}

\* ------------------------------------------------------------------------
\* The state machine
\* ------------------------------------------------------------------------
VARIABLES
    players,          \* GameState.players
    shop,             \* GameState.shop
    storage,          \* GameState.storage
    barriers,         \* GameState.barriers
    bonuses,          \* GameState.bonuses
    curr_player_idx,  \* GameState.curr_player_idx
    round_idx,        \* GameState.round_idx
    action,           \* the PlayerAction of the last process_action call
    outcome,          \* what that call came to: Ok, IgnoreMoveIdx, GameOver, Err, Panic
    error,            \* the message of an Err
    ignore_idx,       \* the index of an IgnoreMoveIdx
    before,           \* the GameState that call was made in
    turns,            \* per player, the FinishTurn actions processed for them
    bought,           \* purchases paid in gold by the current player this turn
    steps,            \* process_action calls so far
    layout,           \* the layout handed to HexMap::create_custom
    hexmap,           \* what create_custom returned for it
    hexgraph,         \* what HexGraph::new built for that map
    lookup,           \* the last HexMap::node_idx call and its answer
    twin,             \* a second GameState, given the same calls as the first
    history,          \* DurangoAPI.history
    game_over,        \* DurangoAPI.game_over
    agents            \* DurangoAPI.agents: per player, whether an agent plays

game == <<players, shop, storage, barriers, bonuses, curr_player_idx, round_idx>>

engine == <<players, shop, storage, barriers, bonuses, curr_player_idx, round_idx,
            action, outcome, error, ignore_idx, before, turns, bought, steps>>

mapvars == <<layout, hexmap, hexgraph, lookup>>

apivars == <<history, game_over, agents>>

vars == <<engine, mapvars, twin, apivars>>

\* The GameState as one value.
GS == MkGame(players, shop, storage, barriers, bonuses, curr_player_idx, round_idx)

NoIndex == [where |-> "Shop", i |-> 0]

BuyCardAction(cards, tokens, index) ==
    [kind |-> "BuyCard", cards |-> cards, tokens |-> tokens, index |-> index,
     path |-> <<>>, card |-> -1, token |-> -1]
MoveAction(cards, tokens, path) ==
    [kind |-> "Move", cards |-> cards, tokens |-> tokens, index |-> NoIndex,
     path |-> path, card |-> -1, token |-> -1]
DrawAction(card, token) ==
    [kind |-> "Draw", cards |-> <<>>, tokens |-> <<>>, index |-> NoIndex,
     path |-> <<>>, card |-> card, token |-> token]
TrashAction(cards) ==
    [kind |-> "Trash", cards |-> cards, tokens |-> <<>>, index |-> NoIndex,
     path |-> <<>>, card |-> -1, token |-> -1]
DiscardAction(cards) ==
    [kind |-> "Discard", cards |-> cards, tokens |-> <<>>, index |-> NoIndex,
     path |-> <<>>, card |-> -1, token |-> -1]
FinishTurnAction ==
    [kind |-> "FinishTurn", cards |-> <<>>, tokens |-> <<>>, index |-> NoIndex,
     path |-> <<>>, card |-> -1, token |-> -1]
NoActionYet ==
    [kind |-> "None", cards |-> <<>>, tokens |-> <<>>, index |-> NoIndex,
     path |-> <<>>, card |-> -1, token |-> -1]

\* Index lists of at most maxlen entries over 0..n: n is the first index out
\* of range of a Vec of n elements; lists may repeat an index.
IdxLists(n, maxlen) == UNION {[1..k -> 0..n] : k \in 0..maxlen}

Dirs == Range(ALL_DIRECTIONS)

PathsUpTo(maxpath) == UNION {[1..k -> Dirs] : k \in 0..maxpath}

\* Of the indices 0..n of a Vec of n elements: the first k, the last, and n,
\* the first out of range.
Probes(n, k) == {i \in 0..n : i < k \/ i >= n - 1}

BuyIndexes(k) ==
    {[where |-> "Shop", i |-> i] : i \in Probes(Len(shop), k)}
    \cup {[where |-> "Storage", i |-> i] : i \in Probes(Len(storage), k)}

\* The map-building variables once the map of the game is built.
NoLookup == [coord |-> <<>>, idx |-> 0]

MapBuilt ==
    /\ layout = <<>>
    /\ hexmap = [outcome |-> "Ok", error |-> "", nodes |-> HexMapNodes,
                 finish_idx |-> finish_idx]
    /\ hexgraph = [built |-> TRUE, dists |-> dists, max_dist |-> max_dist]
    /\ lookup = NoLookup

\* The engine on its own: no second game, no API object around it.
EngineOnly ==
    /\ twin = <<>>
    /\ history = <<>>
    /\ game_over = FALSE
    /\ agents = <<>>

\* A game in play, in one of the given states, and no call made yet.
InPlay(snapshots) ==
    /\ \E g \in snapshots :
        /\ players = g.players
        /\ shop = g.shop
        /\ storage = g.storage
        /\ barriers = g.barriers
        /\ bonuses = g.bonuses
        /\ curr_player_idx = g.curr_player_idx
        /\ round_idx = g.round_idx
        /\ turns = [k \in 1..Len(g.players) |-> 0]
        /\ before = g
    /\ action = NoActionYet
    /\ outcome = "Ok"
    /\ error = ""
    /\ ignore_idx = -1
    /\ bought = 0
    /\ steps = 0

Init == MapBuilt /\ EngineOnly /\ InPlay(Snapshots)

\* A call that panics ends the run.  A call that returns Err is not followed
\* further either: it leaves the state as it found it (ErrLeavesState), so
\* what could follow it already follows the state it was made in.
Running(limit) == steps < limit /\ outcome \notin {"Err", "Panic"}

\* The payment a BuyCard names, in gold: each card's gold value, each Desert
\* token's, as listed.
Payment(gs, buy) ==
    LET p == gs.players[gs.curr_player_idx + 1]
        CardGold(c) == IF c.movement[2] > 0 THEN 2 * c.movement[2] ELSE 1
        TokenGold(t) == IF t.kind = "Desert" THEN 2 * t.v ELSE 0
    IN SeqSum([k \in DOMAIN buy.cards |-> CardGold(p.hand[buy.cards[k] + 1])])
       + SeqSum([k \in DOMAIN buy.tokens |-> TokenGold(p.tokens[buy.tokens[k] + 1])])

\* The listing a BuyCard names.
Listing(gs, buy) ==
    IF buy.index.where = "Shop" THEN gs.shop[buy.index.i + 1]
    ELSE gs.storage[buy.index.i + 1]

\* Every index a BuyCard names is in range.
BuyIndexed(gs, buy) ==
    LET p == gs.players[gs.curr_player_idx + 1] IN
    /\ \A k \in DOMAIN buy.cards : buy.cards[k] \in 0..(Len(p.hand) - 1)
    /\ \A k \in DOMAIN buy.tokens : buy.tokens[k] \in 0..(Len(p.tokens) - 1)
    /\ buy.index.i \in 0..(Len(IF buy.index.where = "Shop" THEN gs.shop
                                ELSE gs.storage) - 1)

\* A purchase by the FreeBuy override: the payment is short of the cost and
\* the one card named carries FreeBuy.
FreePurchase(gs, buy) ==
    /\ BuyIndexed(gs, buy)
    /\ Payment(gs, buy) < Listing(gs, buy).cost
    /\ Len(buy.cards) = 1
    /\ gs.players[gs.curr_player_idx + 1].hand[buy.cards[1] + 1].action.kind = "FreeBuy"

\* What a process_action(act) call with result r leaves of the game, and
\* what is recorded of the call.
Processed(act, r) ==
    /\ players' = r.gs.players
    /\ shop' = r.gs.shop
    /\ storage' = r.gs.storage
    /\ barriers' = r.gs.barriers
    /\ bonuses' = r.gs.bonuses
    /\ curr_player_idx' = r.gs.curr_player_idx
    /\ round_idx' = r.gs.round_idx
    /\ action' = act
    /\ outcome' = r.outcome
    /\ error' = r.error
    /\ ignore_idx' = r.ignore_idx
    /\ before' = GS
    /\ bought' = IF act.kind = "FinishTurn" THEN 0
                 ELSE IF act.kind = "BuyCard" /\ r.outcome = "Ok" /\ ~FreePurchase(GS, act)
                     THEN bought + 1
                 ELSE bought
    /\ turns' = IF act.kind = "FinishTurn" /\ r.outcome \in {"Ok", "GameOver"}
                THEN [turns EXCEPT ![curr_player_idx + 1] = @ + 1]
                ELSE turns
    /\ steps' = steps + 1

\* One process_action(act) call with result r, on the engine alone.
Call(act, r) == Processed(act, r) /\ UNCHANGED <<mapvars, twin, apivars>>

\* The actions, for runs of at most `limit` calls whose index lists have at
\* most `maxcards` entries and whose paths have at most `maxpath` steps.
BuyCardBy(limit, maxcards, maxtokens, k) ==
    /\ Running(limit)
    /\ \E cards \in IdxLists(Len(curr_player(GS).hand), maxcards),
          tokens \in IdxLists(Len(curr_player(GS).tokens), maxtokens),
          index \in BuyIndexes(k) :
        LET act == BuyCardAction(cards, tokens, index) IN
        \E r \in process_action(GS, act) : Call(act, r)

MoveBy(limit, maxcards, maxtokens, maxpath) ==
    /\ Running(limit)
    /\ \E cards \in IdxLists(Len(curr_player(GS).hand), maxcards),
          tokens \in IdxLists(Len(curr_player(GS).tokens), maxtokens),
          path \in PathsUpTo(maxpath) :
        /\ cards = <<>> \/ tokens = <<>> \/ Len(cards) + Len(tokens) <= 3
        /\ LET act == MoveAction(cards, tokens, path) IN
           \E r \in process_action(GS, act) : Call(act, r)

DrawBy(limit) ==
    /\ Running(limit)
    /\ \E card \in -1..Len(curr_player(GS).hand),
          token \in -1..Len(curr_player(GS).tokens) :
        LET act == DrawAction(card, token) IN
        \E r \in process_action(GS, act) : Call(act, r)

TrashBy(limit, maxcards) ==
    /\ Running(limit)
    /\ \E cards \in IdxLists(Len(curr_player(GS).hand), maxcards) :
        LET act == TrashAction(cards) IN
        \E r \in process_action(GS, act) : Call(act, r)

DiscardBy(limit, maxcards) ==
    /\ Running(limit)
    /\ \E cards \in IdxLists(Len(curr_player(GS).hand), maxcards) :
        LET act == DiscardAction(cards) IN
        \E r \in process_action(GS, act) : Call(act, r)

FinishTurnBy(limit) ==
    /\ Running(limit)
    /\ \E r \in process_action(GS, FinishTurnAction) : Call(FinishTurnAction, r)

\* Short runs over every shape of argument.
BuyCard == BuyCardBy(MaxSteps, MaxCards, MaxTokens, Len(shop) + Len(storage))
Move == MoveBy(MaxSteps, MaxCards, MaxTokens + 1, MaxPath)
Draw == DrawBy(MaxSteps)
Trash == TrashBy(MaxSteps, MaxCards)
Discard == DiscardBy(MaxSteps, MaxCards)
FinishTurn == FinishTurnBy(MaxSteps)

Next == BuyCard \/ Move \/ Draw \/ Trash \/ Discard \/ FinishTurn

Spec == Init /\ [][Next]_vars

\* Longer runs over single-index, single-step arguments.
LongBuyCard == BuyCardBy(LongSteps, LongCards, LongTokens, LongProbes)
LongMove == MoveBy(LongSteps, LongCards, LongTokens, LongPath)
LongDraw == DrawBy(LongSteps)
LongTrash == TrashBy(LongSteps, LongCards)
LongDiscard == DiscardBy(LongSteps, LongCards)
LongFinishTurn == FinishTurnBy(LongSteps)

NextLong ==
    LongBuyCard \/ LongMove \/ LongDraw \/ LongTrash \/ LongDiscard \/ LongFinishTurn

SpecLong == Init /\ [][NextLong]_vars

\* ------------------------------------------------------------------------
\* Building maps and graphs on their own
\* ------------------------------------------------------------------------
NoGraph == [built |-> FALSE, dists |-> <<>>, max_dist |-> 0]

\* No game is in play.
Idle ==
    /\ players = <<>>
    /\ shop = <<>>
    /\ storage = <<>>
    /\ barriers = <<>>
    /\ bonuses = <<>>
    /\ curr_player_idx = 0
    /\ round_idx = 0
    /\ action = NoActionYet
    /\ outcome = "Ok"
    /\ error = ""
    /\ ignore_idx = -1
    /\ before = <<>>
    /\ turns = <<>>
    /\ bought = 0
    /\ steps = 0

InitMap ==
    /\ layout \in Layouts
    /\ hexmap = NotBuilt
    /\ hexgraph = NoGraph
    /\ lookup = NoLookup
    /\ EngineOnly
    /\ Idle

\* The coordinates node_idx is asked for: every hex a placed board can
\* cover, and a margin around them.
ProbeCoords == {<<q, r>> : q \in (-3)..(MaxCenter + 2), r \in (-3)..4}

\* HexMap::create_custom(layout).
CreateCustom ==
    /\ hexmap = NotBuilt
    /\ hexmap' = create_custom(layout)
    /\ UNCHANGED <<engine, layout, hexgraph, lookup, twin, apivars>>

\* HexGraph::new(&map) for the map built.
HexGraphNew ==
    /\ hexmap.outcome = "Ok"
    /\ ~hexgraph.built
    /\ LET g == HexGraph_new(hexmap.nodes, hexmap.finish_idx)
       IN hexgraph' = [built |-> TRUE, dists |-> g.dists, max_dist |-> g.max_dist]
    /\ UNCHANGED <<engine, layout, hexmap, lookup, twin, apivars>>

\* map.node_idx(coord) on the map built.
NodeIdx ==
    /\ hexmap.outcome = "Ok"
    /\ \E coord \in ProbeCoords :
        lookup' = [coord |-> coord, idx |-> node_idx(hexmap.nodes, coord)]
    /\ UNCHANGED <<engine, layout, hexmap, hexgraph, twin, apivars>>

NextMap == CreateCustom \/ HexGraphNew \/ NodeIdx

SpecMap == InitMap /\ [][NextMap]_vars

\* ------------------------------------------------------------------------
\* Setting games up
\* ------------------------------------------------------------------------
\* Largest player count asked for, largest seed of the generator handed in.
MaxPlayers == 5
MaxSeed == 7

Presets == {"first", "easy1", "easy2", "medium1", "nowhere"}

NewAction(num_players, preset, rng, checked) ==
    [kind |-> "New", num_players |-> num_players, preset |-> preset, rng |-> rng,
     checked |-> checked]

InitNew ==
    /\ layout = <<>>
    /\ hexmap = NotBuilt
    /\ hexgraph = NoGraph
    /\ lookup = NoLookup
    /\ EngineOnly
    /\ Idle

\* GameState::new called twice with the same arguments, the generators of
\* both calls seeded alike: the first result becomes the game, the second
\* is kept beside it.
NewGame ==
    /\ action = NoActionYet
    /\ \E num_players \in 0..MaxPlayers, preset \in Presets, rng \in 0..MaxSeed,
          checked \in BOOLEAN :
        \E r \in new(num_players, preset, rng, checked),
           again \in new(num_players, preset, rng, checked) :
            /\ players' = r.gs.players
            /\ shop' = r.gs.shop
            /\ storage' = r.gs.storage
            /\ barriers' = r.gs.barriers
            /\ bonuses' = r.gs.bonuses
            /\ curr_player_idx' = r.gs.curr_player_idx
            /\ round_idx' = r.gs.round_idx
            /\ hexmap' = r.map
            /\ hexgraph' = [built |-> r.outcome = "Ok", dists |-> r.graph.dists,
                            max_dist |-> r.graph.max_dist]
            /\ twin' = [outcome |-> again.outcome, gs |-> again.gs]
            /\ action' = NewAction(num_players, preset, rng, checked)
            /\ outcome' = r.outcome
            /\ error' = r.error
            /\ before' = GS
            /\ turns' = [k \in DOMAIN r.gs.players |-> 0]
            /\ steps' = steps + 1
            /\ UNCHANGED <<ignore_idx, bought, layout, lookup, apivars>>

SpecNew == InitNew /\ [][NewGame]_vars

\* ------------------------------------------------------------------------
\* Two games given the same calls
\* ------------------------------------------------------------------------
\* Calls followed, and the reach of the arguments tried.
TwinSteps == 2
TwinCards == 1
TwinPath == 1

\* The actions tried on a game whose current player holds `hand` cards and
\* `tokens` tokens: index lists of at most maxcards entries, paths of at
\* most maxpath steps, the leading and last Shop and Storage slots.
ActionsFor(hand, tokens, maxcards, maxpath) ==
    {MoveAction(cards, <<>>, path) : cards \in IdxLists(hand, maxcards),
                                     path \in PathsUpTo(maxpath)}
    \cup {BuyCardAction(cards, <<>>, index) : cards \in IdxLists(hand, maxcards),
                                              index \in BuyIndexes(1)}
    \cup {DrawAction(card, token) : card \in (-1)..hand, token \in (-1)..tokens}
    \cup {TrashAction(cards) : cards \in IdxLists(hand, maxcards)}
    \cup {DiscardAction(cards) : cards \in IdxLists(hand, maxcards)}
    \cup {FinishTurnAction}

\* Two equal games, neither called yet.
InitTwin ==
    /\ MapBuilt
    /\ InPlay(Snapshots)
    /\ twin = GS
    /\ history = <<>>
    /\ game_over = FALSE
    /\ agents = <<>>

\* The same process_action call on both games.  Each call draws what it
\* shuffles with for itself; the sort of the Shop draws nothing, so equal
\* Shops are sorted alike in both games.
TwinCall ==
    /\ Running(TwinSteps)
    /\ \E act \in ActionsFor(Len(curr_player(GS).hand), Len(curr_player(GS).tokens),
                            TwinCards, TwinPath) :
        \E r \in process_action(GS, act), other \in process_action(twin, act) :
            /\ twin.shop = shop => other.gs.shop = r.gs.shop
            /\ Processed(act, r)
            /\ twin' = other.gs
            /\ UNCHANGED <<mapvars, apivars>>

SpecTwin == InitTwin /\ [][TwinCall]_vars

\* ------------------------------------------------------------------------
\* The API object around the engine (api.rs: DurangoAPI)
\* ------------------------------------------------------------------------
\* Calls followed, and the reach of the arguments tried.
ApiSteps == 2
ApiCards == 1
ApiPath == 3

\* Border: player 0 stands on the village at the edge of the first board,
\* holds the journalist, and the barrier to the second board is a desert
\* one of cost 1.
BorderGame ==
    MkGame(<< MkPlayer(<<2, 1>>, <<traveler, explorer>>,
                       <<to_card(journalist), traveler, explorer, sailor>>,
                       <<>>, <<traveler, explorer, traveler>>,
                       <<>>, 0, TRUE, <<>>, <<>>),
              MkPlayer(<<1, 0>>, <<explorer, traveler, traveler, sailor>>,
                       <<explorer, traveler, explorer, traveler>>,
                       <<>>, <<>>, <<>>, 0, TRUE, <<>>, <<>>) >>,
           NewShop,
           [NewStorage EXCEPT ![3] = Left(journalist, 2)],
           <<MkBarrier(0, ALL_BARRIER_TYPES[3])>>,
           <<[pos |-> CavePos, tokens |-> <<Tok("Jungle", 1), Tok("DrawCard", 0),
                                            Tok("Water", 2), Tok("ShareHex", 0)>>]>>,
           0, 5)

\* End: the last player in turn order has moved onto the finish and has
\* not finished the turn yet.
EndGame ==
    MkGame(<< MkPlayer(<<2, 0>>, <<sailor, explorer>>,
                       <<explorer, to_card(trailblazer), traveler, traveler>>,
                       <<>>, <<>>, <<>>, 0, TRUE, <<>>, <<>>),
              MkPlayer(<<5, 0>>, <<explorer>>,
                       <<sailor, traveler, to_card(photographer)>>,
                       <<explorer>>, <<traveler>>, <<Tok("Water", 2)>>, 0, TRUE, <<>>,
                       <<[terrain |-> "Jungle", cost |-> 2]>>) >>,
           <<jack_of_all_trades, Left(photographer, 1), Left(trailblazer, 1),
             treasure_chest, transmitter>>,
           NewStorage,
           <<>>,
           <<[pos |-> CavePos, tokens |-> <<>>]>>,
           1, 9)

ApiSnapshots == {FreshGame, LateGame, BorderGame, EndGame}

\* An action string that does not parse as a PlayerAction.
MalformedAction == [NoActionYet EXCEPT !.kind = "Malformed"]

FinalStateQuery == [NoActionYet EXCEPT !.kind = "FinalState"]

StartCall == [NoActionYet EXCEPT !.kind = "Start"]

\* The API object as init() makes it around a game, or as it stands later
\* in a game whose history ends where each player stands: one recorded
\* position per player, no game over seen.
ApiAround(snapshots) ==
    /\ MapBuilt
    /\ InPlay(snapshots)
    /\ twin = <<>>
    /\ history = [k \in DOMAIN players |->
                     << <<round_idx, players[k].position[1], players[k].position[2]>> >>]
    /\ game_over = FALSE

\* Every player human.
InitApi == ApiAround(ApiSnapshots) /\ agents = [k \in DOMAIN players |-> FALSE]

\* Any of the players played by an agent.
InitAgents == ApiAround({FreshGame, EndGame}) /\ agents \in [DOMAIN players -> BOOLEAN]

\* The entries do_action appends for the steps of a path from the i-th on
\* (from 0): one per step but the ignored one, each a step on from the last.
RECURSIVE Replayed(_, _, _, _, _)
Replayed(path, i, ignored_idx, prev_pos, round) ==
    IF i >= Len(path) THEN <<>>
    ELSE IF ignored_idx = i THEN Replayed(path, i + 1, ignored_idx, prev_pos, round)
    ELSE LET pos == neighbor_coord(At(path, i), prev_pos)
         IN <<<<round, pos[1], pos[2]>>>> \o Replayed(path, i + 1, ignored_idx, pos, round)

\* The history h after a call of outcome r for the action: a Move extends
\* the history of the player to move after the call, from its last entry.
Recorded(h, act, r) ==
    LET mine == r.gs.curr_player_idx + 1
        last == h[mine][Len(h[mine])]
        ignored_idx == IF r.outcome = "IgnoreMoveIdx" THEN r.ignore_idx ELSE -1
    IN IF act.kind = "Move"
       THEN [h EXCEPT ![mine] = @ \o Replayed(act.path, 0, ignored_idx,
                                              <<last[2], last[3]>>, r.gs.round_idx)]
       ELSE h

\* The API object as one value: the game, the history, the game_over flag.
ApiNow == [outcome |-> "Ok", error |-> "", ignore_idx |-> -1, gs |-> GS,
           history |-> history, game_over |-> game_over]

\* DurangoAPI::do_action on the API object `api`: every result it can come
\* to.  An Err of the engine is passed on before anything is recorded.
do_action(api, act) ==
    {[outcome |-> r.outcome, error |-> r.error, ignore_idx |-> r.ignore_idx, gs |-> r.gs,
      history |-> IF r.outcome \in {"Err", "Panic"} THEN api.history
                  ELSE Recorded(api.history, act, r),
      game_over |-> (api.game_over \/ r.outcome = "GameOver")] :
        r \in process_action(api.gs, act)}

\* Agent actions followed within one call, and calls followed on an API
\* object with agents.
MaxAgentActions == 2
AgentSteps == 2

\* What an agent may choose: of finishing the turn, a step paid with one
\* card and the discard of the whole hand, the actions the engine accepts;
\* and a Move with no step, which it does not.  choose_action is not followed further
\* than this: the loop that drives the agents is what is modelled.
AgentChoices(gs) ==
    LET n == Len(curr_player(gs).hand)
        whole == [k \in 1..n |-> k - 1]
        tried == {FinishTurnAction, DiscardAction(whole)}
                 \cup {MoveAction(<<c>>, <<>>, <<d>>) : c \in 0..(n - 1), d \in Dirs}
        Valid(act) == \E r \in process_action(gs, act) : r.outcome \notin {"Err", "Panic"}
    IN {act \in tried : Valid(act)} \cup {MoveAction(<<>>, <<>>, <<>>)}

\* process_agents with an `if` for the `while`: one agent action at most.
RECURSIVE process_agents_once(_, _)
process_agents_once(res, fuel) ==
    IF res.game_over \/ ~agents[res.gs.curr_player_idx + 1] THEN {res}
    ELSE UNION {{IF r.outcome \in {"Err", "Panic"} THEN r
                 ELSE [r EXCEPT !.outcome = res.outcome, !.ignore_idx = res.ignore_idx] :
                    r \in do_action(res, act)} : act \in AgentChoices(res.gs)}

\* DurangoAPI::process_agents from the result `res` of the call so far:
\* while the game is not over and an agent is to move, the agent's action
\* is done; an Err ends the call.  Runs of more than `fuel` agent actions
\* are not followed.
RECURSIVE process_agents(_, _)
process_agents(res, fuel) ==
    IF res.game_over \/ ~agents[res.gs.curr_player_idx + 1] THEN {res}
    ELSE IF fuel = 0 THEN {}
    ELSE UNION {UNION {IF r.outcome \in {"Err", "Panic"} THEN {r}
                       ELSE process_agents([r EXCEPT !.outcome = res.outcome,
                                                     !.ignore_idx = res.ignore_idx],
                                           fuel - 1) :
                          r \in do_action(res, act)} : act \in AgentChoices(res.gs)}

\* What a call that got as far as the engine leaves behind.
ApiDone(act, res) ==
    /\ Processed(act, res)
    /\ history' = res.history
    /\ game_over' = res.game_over
    /\ UNCHANGED agents

\* The action done, and the agents driven after it.
ApiApplied(act) ==
    \E r \in do_action(ApiNow, act) :
        IF r.outcome \in {"Err", "Panic"} THEN ApiDone(act, r)
        ELSE \E res \in process_agents(r, MaxAgentActions) : ApiDone(act, res)

\* A call the API object turns down itself.
ApiRefused(act, message) ==
    /\ action' = act
    /\ outcome' = "Err"
    /\ error' = message
    /\ before' = GS
    /\ steps' = steps + 1
    /\ UNCHANGED <<players, shop, storage, barriers, bonuses, curr_player_idx, round_idx,
                   ignore_idx, turns, bought, apivars>>

\* api_process_action without the game_over test.
api_process_action_unguarded(act) ==
    IF act.kind = "Malformed" THEN ApiRefused(act, "parse error")
    ELSE ApiApplied(act)

\* DurangoAPI::process_action for one action string.
api_process_action(act) ==
    IF game_over THEN ApiRefused(act, "Game is over")
    ELSE IF act.kind = "Malformed" THEN ApiRefused(act, "parse error")
    ELSE ApiApplied(act)

ApiProcessAction ==
    /\ Running(ApiSteps)
    /\ \E act \in ActionsFor(Len(curr_player(GS).hand), Len(curr_player(GS).tokens),
                            ApiCards, ApiPath) \cup {MalformedAction} :
        api_process_action(act)
    /\ UNCHANGED <<mapvars, twin>>

\* A process_action call on an API object with agents, once start has been
\* called, for an action of one index and one step at most.
AgentsProcessAction ==
    /\ action # NoActionYet
    /\ Running(AgentSteps)
    /\ \E act \in ActionsFor(Len(curr_player(GS).hand), Len(curr_player(GS).tokens), 1, 1) :
        api_process_action(act)
    /\ UNCHANGED <<mapvars, twin>>

\* DurangoAPI::start, as the first call: the agents are driven up to the
\* first human turn.
Start ==
    /\ action = NoActionYet
    /\ \E res \in process_agents(ApiNow, MaxAgentActions) : ApiDone(StartCall, res)
    /\ UNCHANGED <<mapvars, twin>>

\* DurangoAPI::final_state: an error unless the game is over.
FinalState ==
    /\ outcome # "Panic"
    /\ action.kind # "FinalState"
    /\ action' = FinalStateQuery
    /\ outcome' = IF game_over THEN "Ok" ELSE "Err"
    /\ error' = IF game_over THEN "" ELSE "Game is not finished"
    /\ before' = GS
    /\ UNCHANGED <<players, shop, storage, barriers, bonuses, curr_player_idx, round_idx,
                   ignore_idx, turns, bought, steps, mapvars, twin, apivars>>

NextApi == ApiProcessAction \/ FinalState

SpecApi == InitApi /\ [][NextApi]_vars

NextAgents == Start \/ AgentsProcessAction

SpecAgents == InitAgents /\ [][NextAgents]_vars

\* ------------------------------------------------------------------------
\* What the properties below read of the last call
\* ------------------------------------------------------------------------
\* A process_action call has been made.
Called == steps > 0

\* It returned Ok, IgnoreMoveIdx or GameOver.
Succeeded == Called /\ outcome \in {"Ok", "IgnoreMoveIdx", "GameOver"}

\* The player the last call acted for, before the call and after it.
Actor == before.players[before.curr_player_idx + 1]

ActorNow == players[before.curr_player_idx + 1]

CardCount(p) == Len(p.deck) + Len(p.hand) + Len(p.played) + Len(p.discard)

\* The indices are listed in ascending order, none twice: the order the
\* removal of used tokens is written for.
Ascending(s) == \A i, j \in DOMAIN s : i < j => s[i] < s[j]

\* The entries of a card list that name a single-use card of the hand.
SingleUseNamed(p, cards) ==
    Cardinality({k \in DOMAIN cards : p.hand[cards[k] + 1].single_use})

OnFinish(pos) ==
    \E k \in DOMAIN HexMapNodes :
        HexMapNodes[k].coord = pos /\ HexMapNodes[k].board_idx = finish_idx

Joins(b, x, y) ==
    \/ (b.from_board = x /\ b.to_board = y)
    \/ (b.from_board = y /\ b.to_board = x)

TrekStart ==
    [end |-> <<>>, on_map |-> TRUE, move |-> <<0, 0, 0>>, card |-> 0,
     barred |-> FALSE, terrains |-> {}, nodes |-> {}]

\* A path read off the map alone, every step taken: where it ends, the
\* movement and the cards its nodes cost, their terrains, and whether a step
\* crosses a boundary on which bars holds a barrier.  A step onto a cave
\* stays in place and costs nothing.
RECURSIVE Trek(_, _, _, _)
Trek(pos, path, bars, acc) ==
    IF path = <<>> THEN [acc EXCEPT !.end = pos]
    ELSE LET nxt == neighbor_coord(path[1], pos)
             here == node_at(pos)
             n == node_at(nxt)
             i == CASE n.terrain = "Jungle" -> 1
                    [] n.terrain = "Desert" -> 2
                    [] n.terrain = "Water" -> 3
                    [] OTHER -> 0
         IN
         IF n = NoNode THEN [acc EXCEPT !.end = pos, !.on_map = FALSE]
         ELSE Trek(IF n.terrain = "Cave" THEN pos ELSE nxt, Tail(path), bars,
                   [acc EXCEPT
                      !.move = IF i > 0 THEN [@ EXCEPT ![i] = @ + n.cost] ELSE @,
                      !.card = IF n.terrain \in {"Swamp", "Village"} THEN @ + n.cost ELSE @,
                      !.barred = @ \/ \E k \in DOMAIN bars :
                                         Joins(bars[k], here.board_idx, n.board_idx),
                      !.terrains = @ \cup {n.terrain},
                      !.nodes = @ \cup {nxt}])

\* The path of the last action, read off the map as it was before the call.
Trekked == Trek(Actor.position, action.path, before.barriers, TrekStart)

\* The last call was a Move paid with one card of the hand and no token, over
\* a path of steps of one of Jungle, Desert, Water that crosses no barrier.
SingleCardTrek ==
    /\ Called
    /\ action.kind = "Move"
    /\ Len(action.cards) = 1
    /\ action.cards[1] \in 0..(Len(Actor.hand) - 1)
    /\ action.tokens = <<>>
    /\ action.path # <<>>
    /\ Trekked.on_map
    /\ Trekked.terrains \in {{"Jungle"}, {"Desert"}, {"Water"}}
    /\ ~Trekked.barred

TrekCard == Actor.hand[action.cards[1] + 1]

TrekExceeds == \E t \in 1..3 : Trekked.move[t] > TrekCard.movement[t]

TrekOccupied ==
    \E k \in DOMAIN before.players :
        k # before.curr_player_idx + 1 /\ before.players[k].position \in Trekked.nodes

\* ------------------------------------------------------------------------
\* Properties
\* ------------------------------------------------------------------------

\* C1: whenever process_action returns Err, the whole GameState (players,
\* shop, storage, barriers, bonuses, curr_player_idx, round_idx) is the one
\* the call was made in.
ErrLeavesState == outcome = "Err" => GS = before

\* C1 happens: a Move is refused after its whole path is walked and its
\* payment examined.
ErrLeavesStateWitness ==
    /\ outcome = "Err"
    /\ action.kind = "Move"
    /\ error = "Not enough card movement"

\* C2 (as stated): process_action never panics, whatever indices a BuyCard,
\* Move, Draw, Trash or Discard names.
NeverPanics == outcome # "Panic"

\* C3 (as stated, a purchase counted as adding the bought card and a Move
\* onto a village as trashing the cards it names): a successful action leaves
\* every player's deck + hand + played + discard as it was, less the cards a
\* Trash names and the single-use cards consumed.
CardCountKept ==
    Succeeded =>
        /\ \A k \in DOMAIN players :
               k # before.curr_player_idx + 1 =>
                   CardCount(players[k]) = CardCount(before.players[k])
        /\ LET d == CardCount(Actor) - CardCount(ActorNow) IN
           CASE action.kind = "BuyCard" -> d = SingleUseNamed(Actor, action.cards) - 1
             [] action.kind = "Trash" -> d = Len(action.cards)
             [] action.kind = "Draw" ->
                    d = IF /\ action.card >= 0
                           /\ action.token < 0
                           /\ Actor.hand[action.card + 1].single_use
                        THEN 1 ELSE 0
             [] action.kind = "Move" -> d \in {0, Len(action.cards)}
             [] OTHER -> d = 0

\* C4: process_action returns GameOver exactly when the action is FinishTurn,
\* the current player was the last one, and some player then stands on a node
\* of the finish segment; and then every player has finished as many turns.
GameOverAtWrap ==
    /\ outcome = "GameOver" <=>
           /\ Called
           /\ action.kind = "FinishTurn"
           /\ before.curr_player_idx = Len(before.players) - 1
           /\ \E k \in DOMAIN players : OnFinish(players[k].position)
    /\ outcome = "GameOver" =>
           /\ curr_player_idx = 0
           /\ \A j, k \in DOMAIN turns : turns[j] = turns[k]

\* C4 happens: a player reached the finish during the run and the round then
\* ended.
GameOverAtWrapWitness ==
    /\ outcome = "GameOver"
    /\ turns[1] > 0
    /\ \E k \in DOMAIN players : OnFinish(players[k].position)

\* C5: the barriers only ever lose entries; a Move that breaks one (recording
\* it for the mover) removes it; and a Move over boundaries that hold no
\* barrier is charged what its nodes cost and nothing more, breaks nothing
\* and, if it succeeds, leaves the barriers alone.
BarriersOnlyBreak ==
    LET w == WalkPath(before, action, WalkStart(before), 0) IN
    /\ \A k \in DOMAIN barriers :
           \E j \in DOMAIN before.barriers : before.barriers[j] = barriers[k]
    /\ Len(barriers) <= Len(before.barriers)
    /\ Len(barriers) < Len(before.barriers) => Succeeded /\ action.kind = "Move"
    /\ Len(ActorNow.broken_barriers) > Len(Actor.broken_barriers) =>
           /\ Len(barriers) = Len(before.barriers) - 1
           /\ \E j \in DOMAIN before.barriers :
                  /\ ActorNow.broken_barriers[Len(ActorNow.broken_barriers)] =
                         [terrain |-> before.barriers[j].terrain,
                          cost |-> before.barriers[j].cost]
                  /\ \A k \in DOMAIN barriers : barriers[k] # before.barriers[j]
    /\ (Called /\ action.kind = "Move" /\ Trekked.on_map /\ ~Trekked.barred) =>
           /\ w.status = "ok" =>
                  /\ w.broken_barrier = -1
                  /\ w.move_cost = Trekked.move
                  /\ w.card_cost = Trekked.card
           /\ Succeeded =>
                  /\ barriers = before.barriers
                  /\ ActorNow.broken_barriers = Actor.broken_barriers
                  /\ ActorNow.position = Trekked.end

\* C5 happens: with the barrier between boards 0 and 1 broken by another
\* player, a Move takes its player from board 0 onto board 1.
BarriersOnlyBreakWitness ==
    /\ Succeeded
    /\ action.kind = "Move"
    /\ before.barriers = <<>>
    /\ Actor.broken_barriers = <<>>
    /\ \E k \in DOMAIN players : players[k].broken_barriers # <<>>
    /\ node_at(Actor.position).board_idx = 0
    /\ node_at(ActorNow.position).board_idx = 1

OnePaidPurchasePerTurn ==
    /\ bought <= 1
    /\ (Called /\ action.kind = "BuyCard" /\ BuyIndexed(before, action)) =>
           IF FreePurchase(before, action)
           THEN Ascending(action.tokens) =>
                    outcome = "Ok" /\ ActorNow.can_buy = Actor.can_buy
           ELSE /\ ~Actor.can_buy => outcome = "Err"
                /\ outcome = "Ok" => Actor.can_buy /\ ~ActorNow.can_buy

\* C7 happens: a player who has already bought this turn takes a card with a
\* FreeBuy card.
OnePaidPurchasePerTurnWitness ==
    /\ Called
    /\ action.kind = "BuyCard"
    /\ bought = 1
    /\ ~Actor.can_buy
    /\ BuyIndexed(before, action)
    /\ FreePurchase(before, action)
    /\ outcome = "Ok"

\* C8: a BuyCard whose payment is below the listing's cost fails with the
\* not-enough-gold error, unless it names exactly one card and that card
\* carries FreeBuy; the failure leaves Shop, Storage and the hand as they were.
ShortPaymentFails ==
    ( /\ Called
      /\ action.kind = "BuyCard"
      /\ BuyIndexed(before, action)
      /\ Payment(before, action) < Listing(before, action).cost
      /\ ~( /\ Len(action.cards) = 1
            /\ Actor.hand[action.cards[1] + 1].action.kind = "FreeBuy") ) =>
        /\ outcome = "Err"
        /\ error = "Not enough gold"
        /\ shop = before.shop
        /\ storage = before.storage
        /\ ActorNow.hand = Actor.hand

\* C8 happens: a payment of cards and a Desert token that falls short by
\* less than the floor of one card's gold value is refused.
ShortPaymentFailsWitness ==
    /\ Called
    /\ action.kind = "BuyCard"
    /\ BuyIndexed(before, action)
    /\ Len(action.cards) = 2
    /\ Len(action.tokens) = 1
    /\ Actor.tokens[action.tokens[1] + 1].kind = "Desert"
    /\ Payment(before, action) = Listing(before, action).cost - 1
    /\ outcome = "Err"
    /\ error = "Not enough gold"

\* C9 (as stated): a BuyCard on a Storage listing fails whenever the Shop
\* holds 6 listings, however it is paid.
StorageNeedsShopRoom ==
    ( /\ Called
      /\ action.kind = "BuyCard"
      /\ action.index.where = "Storage"
      /\ BuyIndexed(before, action)
      /\ Len(before.shop) >= 6 ) =>
        outcome = "Err"

\* C9 (amended): with 6 listings in the Shop, a BuyCard on a Storage listing
\* fails, leaving the state as it was, unless it is a FreeBuy purchase; a
\* FreeBuy purchase (its token indices listed in ascending order) takes the
\* card straight from Storage, the Shop keeping the listings it had.
PaidStorageNeedsShopRoom ==
    ( /\ Called
      /\ action.kind = "BuyCard"
      /\ action.index.where = "Storage"
      /\ BuyIndexed(before, action)
      /\ Len(before.shop) >= 6 ) =>
        IF FreePurchase(before, action)
        THEN Ascending(action.tokens) =>
                 /\ outcome = "Ok"
                 /\ Len(shop) = Len(before.shop)
                 /\ Range(shop) = Range(before.shop)
                 /\ ActorNow.discard =
                        Append(Actor.discard, Listing(before, action).card)
        ELSE outcome = "Err" /\ GS = before

\* C9 happens: gold enough for the Storage listing is refused for want of
\* room in the Shop.
PaidStorageNeedsShopRoomWitness ==
    /\ Called
    /\ action.kind = "BuyCard"
    /\ action.index.where = "Storage"
    /\ BuyIndexed(before, action)
    /\ Len(before.shop) = 6
    /\ Payment(before, action) >= Listing(before, action).cost
    /\ Actor.can_buy
    /\ outcome = "Err"
    /\ error = "Cannot buy from storage while shop is full"

\* C10: in every state the Shop holds at most 6 listings.
ShopHoldsAtMostSix == Len(shop) <= 6

\* C10 happens: a Storage listing is bought into the last free slot of the
\* Shop and stays listed there.
ShopHoldsAtMostSixWitness ==
    /\ Called
    /\ action.kind = "BuyCard"
    /\ action.index.where = "Storage"
    /\ outcome = "Ok"
    /\ Len(before.shop) = 5
    /\ Len(shop) = 6

\* The copies of listing l's card on offer in gs, Shop and Storage together.
StockOf(gs, l) ==
    LET Copies(s) == SeqSum([k \in DOMAIN s |->
                                IF s[k].card = l.card /\ s[k].cost = l.cost
                                THEN s[k].quantity ELSE 0])
    IN Copies(gs.shop) + Copies(gs.storage)

\* C11: every listing in Shop or Storage has quantity >= 1; a successful
\* BuyCard lowers the stock of the listing it names by exactly one (the
\* listing gone when that was its last copy), leaves every other listing's
\* stock alone, and appends one copy of the card to the buyer's discard pile.
BuyTakesOneCopy ==
    /\ \A k \in DOMAIN shop : shop[k].quantity >= 1
    /\ \A k \in DOMAIN storage : storage[k].quantity >= 1
    /\ (Called /\ action.kind = "BuyCard" /\ outcome = "Ok") =>
           LET l == Listing(before, action)
               offered == Range(before.shop) \cup Range(before.storage)
           IN /\ StockOf(GS, l) = StockOf(before, l) - 1
              /\ \A m \in offered \ {l} : StockOf(GS, m) = StockOf(before, m)
              /\ Len(shop) + Len(storage) =
                     Len(before.shop) + Len(before.storage)
                         - (IF l.quantity = 1 THEN 1 ELSE 0)
              /\ ActorNow.discard = Append(Actor.discard, l.card)

\* C11 happens: the last copy of a listing is bought and the listing is gone.
BuyTakesOneCopyWitness ==
    /\ Called
    /\ action.kind = "BuyCard"
    /\ outcome = "Ok"
    /\ Listing(before, action).quantity = 1
    /\ StockOf(GS, Listing(before, action)) = 0
    /\ Len(shop) + Len(storage) = Len(before.shop) + Len(before.storage) - 1

\* How many entries of s are c.
Count(s, c) == Cardinality({k \in DOMAIN s : s[k] = c})

\* C12: no player's trash allowance is ever below zero; a Trash naming more
\* cards than the current player's allowance returns Err; a successful Trash
\* of k cards leaves a hand of k fewer cards, all of them cards it held,
\* leaves deck, played and discard as they were (the cards enter no pile),
\* and lowers the allowance by exactly k.
TrashWithinAllowance ==
    /\ \A k \in DOMAIN players : players[k].trashes >= 0
    /\ (Called /\ action.kind = "Trash") =>
           /\ Len(action.cards) > Actor.trashes => outcome = "Err"
           /\ outcome = "Ok" =>
                  /\ Len(ActorNow.hand) = Len(Actor.hand) - Len(action.cards)
                  /\ \A c \in Range(ActorNow.hand) :
                         Count(ActorNow.hand, c) <= Count(Actor.hand, c)
                  /\ ActorNow.deck = Actor.deck
                  /\ ActorNow.played = Actor.played
                  /\ ActorNow.discard = Actor.discard
                  /\ ActorNow.trashes = Actor.trashes - Len(action.cards)

\* C12 happens: a player who earned an allowance trashes a card of the hand.
TrashWithinAllowanceWitness ==
    /\ Called
    /\ action.kind = "Trash"
    /\ outcome = "Ok"
    /\ Len(action.cards) = 1
    /\ Actor.trashes >= 1
    /\ ActorNow.trashes = Actor.trashes - 1
    /\ Len(ActorNow.hand) = Len(Actor.hand) - 1

\* C13: a FinishTurn returns normally and leaves the player who ended the
\* turn with an empty played pile, trashes = 0, can_buy = TRUE, the cards of
\* the hand still in hand, and a hand of at least 4 cards unless deck and
\* discard are both empty; that player's card total is unchanged.
FinishTurnRefills ==
    (Called /\ action.kind = "FinishTurn") =>
        /\ outcome \in {"Ok", "GameOver"}
        /\ ActorNow.played = <<>>
        /\ ActorNow.trashes = 0
        /\ ActorNow.can_buy
        /\ Len(ActorNow.hand) >= Len(Actor.hand)
        /\ SubSeq(ActorNow.hand, 1, Len(Actor.hand)) = Actor.hand
        /\ \/ Len(ActorNow.hand) >= 4
           \/ ActorNow.deck = <<>> /\ ActorNow.discard = <<>>
        /\ CardCount(ActorNow) = CardCount(Actor)

\* C13 happens: a player owning three cards ends the turn with all three in
\* hand, the played card among them.
FinishTurnRefillsWitness ==
    /\ Called
    /\ action.kind = "FinishTurn"
    /\ outcome = "Ok"
    /\ Actor.played # <<>>
    /\ Len(ActorNow.hand) = 3
    /\ ActorNow.deck = <<>>
    /\ ActorNow.discard = <<>>
    /\ ActorNow.played = <<>>

\* C14: curr_player_idx is always below the number of players; a FinishTurn
\* takes it from i to (i + 1) mod n and adds one to round_idx exactly when
\* it wraps to 0; every other call, returning or failing, leaves both alone.
TurnOrderAdvances ==
    /\ curr_player_idx \in 0..(Len(players) - 1)
    /\ Len(players) = Len(before.players)
    /\ Called =>
           IF action.kind = "FinishTurn"
           THEN /\ curr_player_idx = (before.curr_player_idx + 1) % Len(players)
                /\ round_idx = before.round_idx + (IF curr_player_idx = 0 THEN 1 ELSE 0)
           ELSE /\ curr_player_idx = before.curr_player_idx
                /\ round_idx = before.round_idx

\* C14 happens: the last player's FinishTurn wraps to player 0 and the
\* round is counted, after a FinishTurn that did not wrap.
TurnOrderAdvancesWitness ==
    /\ steps >= 2
    /\ action.kind = "FinishTurn"
    /\ before.curr_player_idx = Len(players) - 1
    /\ curr_player_idx = 0
    /\ round_idx = before.round_idx + 1
    /\ turns[1] = 1

\* The nodes within n hex steps of the finish segment, every step onto a
\* node of cost below 10.
RECURSIVE Within(_)
Within(n) ==
    IF n = 0 THEN {k \in DOMAIN HexMapNodes : HexMapNodes[k].board_idx = finish_idx}
    ELSE LET near == Within(n - 1)
         IN near \cup
            {k \in DOMAIN HexMapNodes :
                /\ HexMapNodes[k].cost < 10
                /\ \E j \in near :
                       is_adjacent(HexMapNodes[k].coord, HexMapNodes[j].coord)}

\* The hex-step distance to the finish of every node, or the sentinel for a
\* node that no number of steps reaches.
StepsToFinish ==
    [k \in DOMAIN HexMapNodes |->
        IF k \in Within(Len(HexMapNodes))
        THEN CHOOSE n \in 0..Len(HexMapNodes) : k \in Within(n) /\ \A m \in 0..(n - 1) : k \notin Within(m)
        ELSE I32_MAX]

\* The hex-step distance to the finish of the node at pos.
HexSteps(pos) ==
    StepsToFinish[CHOOSE j \in DOMAIN HexMapNodes : HexMapNodes[j].coord = pos]

\* The largest hex-step distance of a node that reaches the finish.
FarthestSteps ==
    CHOOSE n \in 0..Len(HexMapNodes) :
        /\ \E k \in DOMAIN HexMapNodes : StepsToFinish[k] = n
        /\ \A k \in DOMAIN HexMapNodes : StepsToFinish[k] = I32_MAX \/ StepsToFinish[k] <= n

\* C15: in every state player_scores gives each player the largest distance
\* to the finish over the map, less the distance of the player's position,
\* plus the number of barriers the player has broken, plus 1000 exactly when
\* that distance is 0.
ScoresFollowDistance ==
    \A k \in DOMAIN players :
        player_scores(GS)[k] =
            FarthestSteps - HexSteps(players[k].position)
                + Len(players[k].broken_barriers)
                + (IF HexSteps(players[k].position) = 0 THEN 1000 ELSE 0)

\* C15 happens: a player who broke a barrier has moved onto the finish,
\* while the other is still on the way.
ScoresFollowDistanceWitness ==
    /\ Called
    /\ action.kind = "Move"
    /\ \E k \in DOMAIN players :
           /\ OnFinish(players[k].position)
           /\ players[k].broken_barriers # <<>>
           /\ player_scores(GS)[k] = FarthestSteps + 1 + 1000
    /\ \E k \in DOMAIN players :
           /\ ~OnFinish(players[k].position)
           /\ player_scores(GS)[k] \in 0..FarthestSteps

\* The last call was a Move of one step from the current player's position
\* onto a cave.
CaveStep ==
    /\ Called
    /\ action.kind = "Move"
    /\ Len(action.path) = 1
    /\ node_at(neighbor_coord(action.path[1], Actor.position)) # NoNode
    /\ node_at(neighbor_coord(action.path[1], Actor.position)).terrain = "Cave"

\* The cave the last call stepped onto.
CaveStepped == neighbor_coord(action.path[1], Actor.position)

\* The tokens left in the cave at pos in game state gs.
CaveStack(gs, pos) ==
    IF \E k \in DOMAIN gs.bonuses : gs.bonuses[k].pos = pos
    THEN gs.bonuses[CHOOSE k \in DOMAIN gs.bonuses : gs.bonuses[k].pos = pos].tokens
    ELSE <<>>

\* C16: a successful cave visit puts the cave in the player's memory; a cave
\* visit to a cave in the player's memory fails; a cave leaves a player's
\* memory only by a successful Move of that player that ends on a hex not
\* adjacent to the cave, and no memory holds a cave that is not adjacent to
\* its player; a card-free visit to a cave that is not in memory and still
\* holds tokens succeeds.
CaveVisitOncePerStay ==
    /\ \A k \in DOMAIN players : \A c \in Range(players[k].visited_caves) :
           is_adjacent(players[k].position, c)
    /\ Called =>
        /\ CaveStep /\ Succeeded => CaveStepped \in Range(ActorNow.visited_caves)
        /\ CaveStep /\ CaveStepped \in Range(Actor.visited_caves) =>
               /\ outcome = "Err"
               /\ GS = before
        /\ \A k \in DOMAIN players : \A c \in Range(before.players[k].visited_caves) :
               c \notin Range(players[k].visited_caves) =>
                   /\ k = before.curr_player_idx + 1
                   /\ action.kind = "Move"
                   /\ Succeeded
                   /\ ~CaveStep
                   /\ ~is_adjacent(players[k].position, c)
        /\ ( /\ CaveStep
             /\ action.cards = <<>>
             /\ CaveStepped \notin Range(Actor.visited_caves)
             /\ CaveStack(before, CaveStepped) # <<>> )
           => outcome = "IgnoreMoveIdx"

\* C16 happens: a player who began next to a cave already visited, holding
\* two ShareHex tokens, has moved away and back and visits the cave again.
CaveVisitOncePerStayWitness ==
    /\ CaveStep
    /\ Succeeded
    /\ steps = LongSteps
    /\ Len(SelectSeq(Actor.tokens, LAMBDA t : t.kind = "ShareHex")) = 2
    /\ Actor.visited_caves = <<>>
    /\ CaveStepped \in Range(ActorNow.visited_caves)

\* C17: a successful Move of one step onto a cave names no card, leaves the
\* player's position, deck, hand, played and discard piles as they were,
\* takes the top token off that cave's stack and no other token off any
\* stack, appends that token to the player's tokens and returns
\* IgnoreMoveIdx(0); a Move whose path steps onto a cave and has more than
\* one step or names a card does not succeed and changes nothing, and
\* returns Err when every token it names is one the player holds.
CaveVisitTakesOneToken ==
    /\ (CaveStep /\ Succeeded) =>
        /\ action.cards = <<>>
        /\ outcome = "IgnoreMoveIdx"
        /\ ignore_idx = 0
        /\ ActorNow.position = Actor.position
        /\ ActorNow.deck = Actor.deck
        /\ ActorNow.hand = Actor.hand
        /\ ActorNow.played = Actor.played
        /\ ActorNow.discard = Actor.discard
        /\ CaveStack(before, CaveStepped) # <<>>
        /\ CaveStack(before, CaveStepped) =
               Append(CaveStack(GS, CaveStepped), ActorNow.tokens[Len(ActorNow.tokens)])
        /\ ActorNow.tokens =
               Append(Actor.tokens,
                      CaveStack(before, CaveStepped)[Len(CaveStack(before, CaveStepped))])
        /\ \A k \in DOMAIN bonuses :
               bonuses[k].pos # CaveStepped => bonuses[k] = before.bonuses[k]
        /\ DOMAIN bonuses = DOMAIN before.bonuses
    /\ ( /\ Called
         /\ action.kind = "Move"
         /\ "Cave" \in Trekked.terrains
         /\ Len(action.path) > 1 \/ action.cards # <<>> ) =>
        /\ ~Succeeded
        /\ GS = before
        /\ (\A i \in DOMAIN action.tokens : action.tokens[i] < Len(Actor.tokens)) =>
               outcome = "Err"

\* C17 happens: a cave visit has taken the top token of a stack of at least
\* two different tokens.
CaveVisitTakesOneTokenWitness ==
    /\ CaveStep
    /\ Succeeded
    /\ Len(CaveStack(before, CaveStepped)) >= 2
    /\ CaveStack(before, CaveStepped)[1] # ActorNow.tokens[Len(ActorNow.tokens)]
    /\ Len(CaveStack(GS, CaveStepped)) = Len(CaveStack(before, CaveStepped)) - 1

\* No two players of game state gs stand on the same hex.
Apart(gs) ==
    \A j, k \in DOMAIN gs.players :
        j # k => gs.players[j].position # gs.players[k].position

\* The last call was a Move naming a ShareHex token the player held.
NamesShareHex ==
    /\ action.kind = "Move"
    /\ \E i \in DOMAIN action.tokens :
           /\ action.tokens[i] < Len(Actor.tokens)
           /\ Actor.tokens[action.tokens[i] + 1].kind = "ShareHex"

\* C18: a call other than a Move naming a ShareHex token, made with no two
\* players on one hex, leaves no two players on one hex; and a Move naming
\* only tokens the player holds, none of them ShareHex, whose path crosses
\* no barrier and steps onto a hex where another player stands returns Err
\* and changes nothing.
NoSharingWithoutShareHex ==
    Called =>
        /\ (Apart(before) /\ ~NamesShareHex) => Apart(GS)
        /\ ( /\ action.kind = "Move"
             /\ ~NamesShareHex
             /\ \A i \in DOMAIN action.tokens : action.tokens[i] < Len(Actor.tokens)
             /\ ~Trekked.barred
             /\ TrekOccupied ) =>
            /\ outcome = "Err"
            /\ GS = before

\* C18 happens: after two other calls, a Move that a card of the hand would
\* pay for is refused because its step is onto another player's hex.
NoSharingWithoutShareHexWitness ==
    /\ steps = LongSteps
    /\ action.kind = "Move"
    /\ action.cards # <<>>
    /\ SingleCardTrek
    /\ ~TrekExceeds
    /\ TrekOccupied
    /\ error = "Cannot move to occupied node"
    /\ Apart(GS)

\* The last call was a Move naming two different ShareHex tokens the player
\* held.
NamesTwoShareHex ==
    /\ Called
    /\ action.kind = "Move"
    /\ \E i, j \in DOMAIN action.tokens :
           /\ action.tokens[i] # action.tokens[j]
           /\ action.tokens[i] < Len(Actor.tokens)
           /\ action.tokens[j] < Len(Actor.tokens)
           /\ Actor.tokens[action.tokens[i] + 1].kind = "ShareHex"
           /\ Actor.tokens[action.tokens[j] + 1].kind = "ShareHex"

\* C19 (as stated): a Move naming more than one ShareHex token does not
\* succeed, whatever pays for it.
OneShareHexPerMove == NamesTwoShareHex => ~Succeeded

\* The last call was a successful Move naming cards of the hand, no index
\* twice.
PaidMove ==
    /\ Succeeded
    /\ action.kind = "Move"
    /\ action.cards # <<>>
    /\ \A i \in DOMAIN action.cards : action.cards[i] < Len(Actor.hand)
    /\ \A i, j \in DOMAIN action.cards : i # j => action.cards[i] # action.cards[j]

\* How many of the cards the last call named were copies of card c.
NamedCount(c) ==
    Cardinality({i \in DOMAIN action.cards : Actor.hand[action.cards[i] + 1] = c})

\* A card the last call named is single-use.
NamesSingleUse ==
    \E i \in DOMAIN action.cards : Actor.hand[action.cards[i] + 1].single_use

\* A token the last call named is a DoubleUse token the player held.
NamesDoubleUse ==
    \E i \in DOMAIN action.tokens :
        /\ action.tokens[i] < Len(Actor.tokens)
        /\ Actor.tokens[action.tokens[i] + 1].kind = "DoubleUse"

\* The last call named a FreeMove card or token in the way is_free_move
\* recognises.
NamesFreeMove ==
    IF Len(action.cards) = 1
    THEN Actor.hand[action.cards[1] + 1].action.kind = "FreeMove"
    ELSE /\ Len(action.tokens) = 1
         /\ action.tokens[1] < Len(Actor.tokens)
         /\ Actor.tokens[action.tokens[1] + 1].kind = "FreeMove"

\* The barriers the first step of the last call's path runs into: those
\* between the player's board and the higher board of the node stepped to.
FirstStepBarriers ==
    LET here == node_at(Actor.position)
        n == node_at(neighbor_coord(action.path[1], Actor.position))
    IN IF n = NoNode \/ here.board_idx >= n.board_idx THEN {}
       ELSE {k \in DOMAIN before.barriers :
                Joins(before.barriers[k], here.board_idx, n.board_idx)}

\* The cards of the last call paid a card cost: the path is one step that
\* either runs into a Swamp barrier or, made without a FreeMove, is onto a
\* Swamp or Village node.
PaidCardCost ==
    /\ Len(action.path) = 1
    /\ IF FirstStepBarriers # {}
       THEN \A k \in FirstStepBarriers :
                (\A h \in FirstStepBarriers : k <= h) => before.barriers[k].terrain = "Swamp"
       ELSE ~NamesFreeMove /\ Trekked.card > 0

\* The cards the last call named left the hand and entered no pile.
NamedTrashed ==
    /\ Len(ActorNow.hand) = Len(Actor.hand) - Len(action.cards)
    /\ ActorNow.played = Actor.played
    /\ ActorNow.deck = Actor.deck
    /\ ActorNow.discard = Actor.discard
    /\ \A c \in Range(Actor.hand) :
           Count(ActorNow.hand, c) = Count(Actor.hand, c) - NamedCount(c)

\* The cards the last call named left the hand for the played pile.
NamedPlayed ==
    /\ Len(ActorNow.hand) = Len(Actor.hand) - Len(action.cards)
    /\ Len(ActorNow.played) = Len(Actor.played) + Len(action.cards)
    /\ ActorNow.deck = Actor.deck
    /\ ActorNow.discard = Actor.discard
    /\ \A c \in Range(Actor.hand) \cup Range(Actor.played) :
           /\ Count(ActorNow.hand, c) = Count(Actor.hand, c) - NamedCount(c)
           /\ Count(ActorNow.played, c) = Count(Actor.played, c) + NamedCount(c)

BarrierIndexEitherOrder ==
    \A a, b \in 0..finish_idx :
        barrier_index(GS, a, b) = barrier_index(GS, b, a)

\* The last call was a Draw.
DrawCalled == Called /\ action.kind = "Draw"

\* The card the last Draw named, when it named one of the hand.
DrawnWith == Actor.hand[action.card + 1]

\* The last Draw named a hand card with a Draw or DrawAndTrash action and
\* either no token or a DoubleUse token the player held.
DrawByCard ==
    /\ DrawCalled
    /\ action.card \in 0..(Len(Actor.hand) - 1)
    /\ DrawnWith.action.kind \in {"Draw", "DrawAndTrash"}
    /\ \/ action.token < 0
       \/ /\ action.token < Len(Actor.tokens)
          /\ Actor.tokens[action.token + 1].kind = "DoubleUse"

\* The last Draw named no card and a DrawCard, TrashCard or ReplaceHand
\* token the player held.
DrawByToken ==
    /\ DrawCalled
    /\ action.card < 0
    /\ action.token \in 0..(Len(Actor.tokens) - 1)
    /\ Actor.tokens[action.token + 1].kind \in {"DrawCard", "TrashCard", "ReplaceHand"}

\* The cards the player could draw before the last call.
Drawable == Len(Actor.deck) + Len(Actor.discard)

\* The number of cards a Draw by card brings into the hand.
DrawnCount == IF DrawnWith.action.n <= Drawable THEN DrawnWith.action.n ELSE Drawable

\* C22: a Draw succeeds exactly when it names a Draw(n) or DrawAndTrash(n)
\* card of the hand, alone or with a DoubleUse token, or no card and a
\* DrawCard, TrashCard or ReplaceHand token; otherwise it returns Err and
\* changes nothing.  A Draw by card moves min(n, deck + discard) cards from
\* deck and discard into the hand, raises the trash allowance by n for
\* DrawAndTrash and by nothing for Draw, and takes the card out of the hand:
\* out of every pile when it is single-use and no token is named, else onto
\* the played pile.
DrawNeedsCapability ==
    DrawCalled =>
        /\ Succeeded <=> (DrawByCard \/ DrawByToken)
        /\ ~Succeeded => (outcome = "Err" /\ GS = before)
        /\ DrawByCard =>
            /\ Len(ActorNow.hand) = Len(Actor.hand) - 1 + DrawnCount
            /\ Len(ActorNow.deck) + Len(ActorNow.discard) = Drawable - DrawnCount
            /\ \A c \in Range(Actor.hand) \cup Range(Actor.deck) \cup Range(Actor.discard) :
                   Count(ActorNow.hand, c) + Count(ActorNow.deck, c) + Count(ActorNow.discard, c)
                       = Count(Actor.hand, c) + Count(Actor.deck, c) + Count(Actor.discard, c)
                           - (IF c = DrawnWith THEN 1 ELSE 0)
            /\ ActorNow.trashes =
                   Actor.trashes + (IF DrawnWith.action.kind = "DrawAndTrash"
                                    THEN DrawnWith.action.n ELSE 0)
            /\ ActorNow.played =
                   IF DrawnWith.single_use /\ action.token < 0
                   THEN Actor.played
                   ELSE Append(Actor.played, DrawnWith)

\* C22 happens: a single-use Draw(n) card, kept by a DoubleUse token, has
\* drawn fewer than n cards because deck and discard ran out, the discard
\* pile reshuffled on the way.
DrawNeedsCapabilityWitness ==
    /\ DrawByCard
    /\ Succeeded
    /\ DrawnWith.single_use
    /\ action.token >= 0
    /\ DrawnWith.action.n > Drawable
    /\ Drawable > Len(Actor.deck)
    /\ Len(ActorNow.hand) = Len(Actor.hand) - 1 + Drawable
    /\ ActorNow.played = Append(Actor.played, DrawnWith)

\* The distance HexGraph::new gave node k of the map built.
DistOf(k) == hexgraph.dists[k]

\* Node k of the map built has a finite distance.
Reached(k) == DistOf(k) < I32_MAX

\* C23: in the table HexGraph::new builds, every node of the finish board
\* has distance 0, and every node with a finite distance d > 0 has a node
\* next to it with distance d - 1.
FinishAtZeroAndStepsDown ==
    hexgraph.built =>
        \A k \in DOMAIN hexmap.nodes :
            /\ hexmap.nodes[k].board_idx = hexmap.finish_idx => DistOf(k) = 0
            /\ (Reached(k) /\ DistOf(k) > 0) =>
                   \E j \in DOMAIN hexmap.nodes :
                       /\ is_adjacent(hexmap.nodes[j].coord, hexmap.nodes[k].coord)
                       /\ DistOf(j) = DistOf(k) - 1

\* A graph built in which some node is two or more steps from the finish.
FinishAtZeroAndStepsDownWitness ==
    /\ hexgraph.built
    /\ \E k \in DOMAIN hexmap.nodes : Reached(k) /\ DistOf(k) >= 2

\* C24 (as stated): in the table HexGraph::new builds, every node of cost 10
\* or more has the sentinel distance, on the finish board as elsewhere.
CostlyNodesUnreached ==
    hexgraph.built =>
        \A k \in DOMAIN hexmap.nodes :
            hexmap.nodes[k].cost >= 10 => DistOf(k) = I32_MAX

\* The coordinates entry k of the layout covers once placed.
Covered(k) == {n.coord : n \in Range(PlacedBoard(layout[k], k - 1))}

\* Two placed segments of the layout cover a coordinate in common.
SegmentsOverlap == \E j, k \in DOMAIN layout : j < k /\ Covered(j) \cap Covered(k) # {}

\* The indices (from 1) of the map built that hold the coordinate.
StoredAt(coord) == {k \in DOMAIN hexmap.nodes : hexmap.nodes[k].coord = coord}

\* C25: create_custom returns Err for an empty layout and for a layout two
\* of whose placed segments cover the same coordinate; on success no
\* coordinate occurs twice, and node_idx finds a coordinate at exactly the
\* index that holds it, and nothing for a coordinate the map does not hold.
CreateCustomChecksAndIndexes ==
    /\ (hexmap # NotBuilt /\ (layout = <<>> \/ SegmentsOverlap)) => hexmap.outcome = "Err"
    /\ hexmap.outcome = "Ok" =>
        /\ \A j, k \in DOMAIN hexmap.nodes :
               hexmap.nodes[j].coord = hexmap.nodes[k].coord => j = k
        /\ lookup # NoLookup =>
               IF StoredAt(lookup.coord) = {} THEN lookup.idx = 0
               ELSE StoredAt(lookup.coord) = {lookup.idx}

\* A map of two boards whose sort interleaved them, and a lookup that found
\* a node of the first board behind one of the second.
CreateCustomChecksAndIndexesWitness ==
    /\ hexmap.outcome = "Ok"
    /\ lookup.idx > 1
    /\ hexmap.nodes[lookup.idx].board_idx = 0
    /\ \E k \in 1..(lookup.idx - 1) : hexmap.nodes[k].board_idx = 1

\* create_custom refused a layout whose segments overlap.
OverlapRefused == hexmap.outcome = "Err" /\ SegmentsOverlap /\ hexmap.error = "Overlapping nodes"

\* new() has been called.
NewCalled == action.kind = "New"

\* The starting hexes the preset of the call offers: the nodes of its map
\* as far from the finish as any node the search reached.
StartHexes ==
    LET map == create_named(action.preset)
        graph == HexGraph_new(map.nodes, map.finish_idx)
        far == {graph.dists[k] : k \in DOMAIN graph.dists} \ {I32_MAX}
    IN IF map.outcome = "Err" THEN {}
       ELSE {map.nodes[k].coord : k \in {j \in DOMAIN map.nodes :
                                         /\ graph.dists[j] < I32_MAX
                                         /\ \A d \in far : d <= graph.dists[j]}}

\* C26: new() fails for a player count outside 2..=4 and for a map with
\* fewer hexes at the largest distance than players; when it succeeds there
\* are exactly num_players players, on different hexes all at the largest
\* distance, each with four cards in hand and four in the deck, player 0 is
\* to move in round 0, the Shop lists six cards and the Storage twelve.
NewChecksAndSeats ==
    NewCalled =>
        /\ action.num_players \notin 2..4 => outcome = "Err"
        /\ (create_named(action.preset).outcome = "Ok"
            /\ Cardinality(StartHexes) < action.num_players) => outcome \in {"Err", "Panic"}
        /\ outcome = "Ok" =>
            /\ Len(players) = action.num_players
            /\ \A j, k \in DOMAIN players : players[j].position = players[k].position => j = k
            /\ \A k \in DOMAIN players :
                /\ players[k].position \in StartHexes
                /\ Len(players[k].hand) = 4
                /\ Len(players[k].deck) = 4
            /\ curr_player_idx = 0
            /\ round_idx = 0
            /\ Len(shop) = 6
            /\ Len(storage) = 12

\* Four players seated on a three-board map.
NewChecksAndSeatsWitness ==
    /\ NewCalled
    /\ outcome = "Ok"
    /\ action.num_players = 4
    /\ hexmap.finish_idx = 2
    /\ Len(players) = 4

\* new() refused a map with too few starting hexes for a count in 2..=4.
NewRefusedForHexes ==
    /\ NewCalled
    /\ action.num_players \in 2..4
    /\ error = "Not enough distinct starting positions"

TwinsStayEqual == twin = GS

\* The two games came apart in a call that succeeded on both.
TwinsParted == Succeeded /\ twin # GS

\* The hex the history of player k (from 1) ends on.
HistoryEnd(k) == <<history[k][Len(history[k])][2], history[k][Len(history[k])][3]>>

\* C29 (as stated): after calls that all succeeded, the history of every
\* player ends on the hex the engine has the player on.
HistoryEndsAtPlayer ==
    outcome \notin {"Err", "Panic"} =>
        \A k \in DOMAIN players : HistoryEnd(k) = players[k].position

\* C30: once game_over is set, every process_action call on the API object
\* returns the error "Game is over" and leaves the game and the history as
\* they were; and final_state returns an error wherever the game is not over.
GameOverIsFinal ==
    /\ [][(game_over /\ steps' # steps) =>
            /\ outcome' = "Err"
            /\ error' = "Game is over"
            /\ GS' = GS
            /\ history' = history
            /\ game_over']_vars
    /\ []((action.kind = "FinalState" /\ ~game_over) => outcome = "Err")

\* A call made after the FinishTurn that ended the game, and turned down.
GameOverIsFinalWitness ==
    /\ game_over
    /\ steps = 2
    /\ action.kind \in {"Move", "BuyCard", "Draw", "Trash", "Discard", "FinishTurn"}
    /\ error = "Game is over"
    /\ before = GS

\* final_state asked while the game was still on, and refused.
FinalStateRefused == action.kind = "FinalState" /\ ~game_over /\ outcome = "Err"

\* Tokens: player 0 took a FreeMove and a ShareHex token from the cave on
\* two visits, moved away and came back beside it; player 1 stands before a
\* Desert barrier.
TokenGame ==
    MkGame(<< MkPlayer(<<1, 0>>, <<explorer, traveler>>,
                       <<explorer, traveler, sailor, traveler>>,
                       <<>>, <<explorer, traveler>>,
                       <<Tok("FreeMove", 0), Tok("ShareHex", 0)>>,
                       0, TRUE, <<>>, <<>>),
              MkPlayer(<<2, 0>>, <<traveler, sailor>>,
                       <<explorer, traveler, explorer, traveler>>,
                       <<>>, <<traveler, explorer>>, <<>>, 0, TRUE, <<>>, <<>>) >>,
           NewShop, NewStorage,
           <<MkBarrier(0, ALL_BARRIER_TYPES[3])>>,
           <<[pos |-> CavePos, tokens |-> <<Tok("Jungle", 2), Tok("Desert", 1)>>]>>,
           0, 5)

\* Outpost: player 0 stands between the village and a Swamp barrier with
\* the FreeMove token of the cave it last visited.
OutpostGame ==
    MkGame(<< MkPlayer(<<2, 0>>, <<traveler, sailor>>,
                       <<explorer, traveler, explorer, traveler>>,
                       <<>>, <<explorer, traveler>>,
                       <<Tok("FreeMove", 0)>>,
                       0, TRUE, <<CavePos>>, <<>>),
              MkPlayer(<<0, 1>>, <<explorer, traveler>>,
                       <<traveler, sailor, explorer, traveler>>,
                       <<>>, <<explorer, traveler>>, <<>>, 0, TRUE, <<>>, <<>>) >>,
           NewShop, NewStorage,
           <<MkBarrier(0, ALL_BARRIER_TYPES[5])>>,
           <<[pos |-> CavePos, tokens |-> <<Tok("Desert", 1), Tok("ShareHex", 0), Tok("Water", 1)>>]>>,
           0, 7)

\* Steps of a path, tokens and cards named, in the Moves of a token holder.
TokenPath == 3
TokenIdxs == 2
TokenCards == 1

InitTokens == MapBuilt /\ EngineOnly /\ InPlay({TokenGame, OutpostGame, EarlyGame, CampGame})

\* One Move of a player holding tokens.
TokenMove == MoveBy(MaxSteps, TokenCards, TokenIdxs, TokenPath)

NextTokens == TokenMove

SpecTokens == InitTokens /\ [][NextTokens]_vars

\* Paths that walk to and fro between a node and its north-eastern
\* neighbour, then on: as many round trips as a Move needs to charge more
\* than a u8 holds when the neighbour costs 10.
MaxTrips == 21

RECURSIVE Trips(_)
Trips(k) == IF k = 0 THEN <<>> ELSE <<"NorthEast", "SouthWest">> \o Trips(k - 1)

TripTails ==
    {<<>>, <<"NorthWest">>, <<"NorthWest", "SouthWest">>,
     <<"NorthWest", "SouthWest", "East">>,
     <<"NorthWest", "SouthWest", "East", "West">>}

InitTrips == MapBuilt /\ EngineOnly /\ InPlay({ThinGame, TokenGame})

\* One Move over such a path, naming at most one card and one token.
LongTrek ==
    /\ Running(MaxSteps)
    /\ \E k \in 0..MaxTrips, tail \in TripTails,
          cards \in IdxLists(Len(curr_player(GS).hand), 1),
          tokens \in IdxLists(Len(curr_player(GS).tokens), 1) :
        LET act == MoveAction(cards, tokens, Trips(k) \o tail) IN
        \E r \in process_action(GS, act) : Call(act, r)

NextTrips == LongTrek

SpecTrips == InitTrips /\ [][NextTrips]_vars

\* The last call was a start or a process_action of the API object.
ApiCalled == action.kind \notin {"None", "FinalState"}

\* C31: whenever start or process_action of the API object returns Ok, the
\* game is over or the player to move is not played by an agent.
OkLeavesHumanToMove ==
    (ApiCalled /\ outcome \notin {"Err", "Panic"}) =>
        (game_over \/ ~agents[curr_player_idx + 1])

\* A human finished the turn, the agent after them played its turn to the
\* end within the same call, and the human is to move again a round later.
OkLeavesHumanToMoveWitness ==
    /\ action.kind = "FinishTurn"
    /\ outcome = "Ok"
    /\ ~game_over
    /\ \E k \in DOMAIN agents : agents[k]
    /\ curr_player_idx = before.curr_player_idx
    /\ round_idx = before.round_idx + 1

\* How many of the positions in idxs (1-based) of s hold x.
CountAt(s, idxs, x) == Cardinality({i \in idxs : s[i] = x})

\* The positions of the actor's hand that the action's cards do not name.
Unnamed == {i \in DOMAIN Actor.hand : (i - 1) \notin Range(action.cards)}

\* C32: a successful BuyCard that names its cards once each, in ascending
\* order, takes from the buyer's hand the cards it names and no others: the
\* hand afterwards holds, card for card, the cards that stood at the
\* positions the action did not name.
BuyKeepsUnnamedHand ==
    (Succeeded /\ action.kind = "BuyCard" /\ Ascending(action.cards)) =>
        /\ Len(ActorNow.hand) = Cardinality(Unnamed)
        /\ \A x \in Range(Actor.hand) :
               CountAt(ActorNow.hand, DOMAIN ActorNow.hand, x) = CountAt(Actor.hand, Unnamed, x)

\* The action names token indices of the actor, each once, in any order.
TokensNamedOnce ==
    /\ Cardinality(Range(action.tokens)) = Len(action.tokens)
    /\ \A k \in DOMAIN action.tokens : InRange(Actor.tokens, action.tokens[k])

\* The same indices listed in ascending order.
InAscendingOrder(s) == CHOOSE t \in Shuffles(s) : Ascending(t)

\* The positions of the actor's tokens that the action does not name.
UnnamedTokens == {i \in DOMAIN Actor.tokens : (i - 1) \notin Range(action.tokens)}

\* C33: after a successful Move (other than a cave visit, which hands out a
\* token) or BuyCard that names distinct token indices, in whatever order,
\* the player's tokens are the previous ones less those that stood at the
\* named indices; and the order of the list makes no call panic that would
\* not panic with the list in ascending order.
TokensRemovedInAnyOrder ==
    (Called /\ action.kind \in {"Move", "BuyCard"} /\ TokensNamedOnce) =>
        /\ (Succeeded /\ Len(ActorNow.visited_caves) <= Len(Actor.visited_caves)) =>
               /\ Len(ActorNow.tokens) = Cardinality(UnnamedTokens)
               /\ \A x \in Range(Actor.tokens) :
                      CountAt(ActorNow.tokens, DOMAIN ActorNow.tokens, x) = CountAt(Actor.tokens, UnnamedTokens, x)
        /\ outcome = "Panic" =>
               \E r \in process_action(before, [action EXCEPT !.tokens = InAscendingOrder(@)]) :
                   r.outcome = "Panic"

\* The Move is paid by a free move: its one card is a FreeMove card, or it
\* names no card and, of the actor's tokens, a FreeMove token and otherwise
\* only ShareHex tokens.
PaidByFreeMove ==
    \/ /\ Len(action.cards) = 1
       /\ InRange(Actor.hand, action.cards[1])
       /\ At(Actor.hand, action.cards[1]).action = FreeMove
    \/ /\ action.cards = <<>>
       /\ \A k \in DOMAIN action.tokens : InRange(Actor.tokens, action.tokens[k])
       /\ \E k \in DOMAIN action.tokens : At(Actor.tokens, action.tokens[k]).kind = "FreeMove"
       /\ \A k \in DOMAIN action.tokens : At(Actor.tokens, action.tokens[k]).kind \in {"FreeMove", "ShareHex"}

\* C34: a Move paid by a FreeMove card or token that succeeds has a path of
\* one step and breaks no Jungle, Desert or Water barrier; with a longer
\* path it fails, a ShareHex token named beside the FreeMove token or not.
FreeMoveIsOneStep ==
    (Called /\ action.kind = "Move" /\ PaidByFreeMove /\ Succeeded) =>
        /\ Len(action.path) = 1
        /\ \/ ActorNow.broken_barriers = Actor.broken_barriers
           \/ ActorNow.broken_barriers[Len(ActorNow.broken_barriers)].terrain = "Swamp"

\* A FreeMove token and a ShareHex token paid for two steps, the second
\* breaking the Desert barrier.
FreeMoveBrokeBarrier ==
    /\ action.kind = "Move"
    /\ action.cards = <<>>
    /\ action.tokens = <<0, 1>>
    /\ action.path = <<"East", "East">>
    /\ Succeeded
    /\ barriers = <<>>
    /\ ActorNow.tokens = <<>>

\* C35: no successful Move ends on a node of cost 10 or more, nor steps onto
\* one on its way (read for paths that meet no barrier).
CostlyNodesNeverEntered ==
    (Succeeded /\ action.kind = "Move") =>
        /\ node_at(ActorNow.position).cost < 10
        /\ (Trekked.on_map /\ ~Trekked.barred) =>
               \A c \in Trekked.nodes : node_at(c).cost < 10

\* The accumulators of handle_move at the end of the loop over the path of
\* the last action.
Walked == WalkPath(before, action, WalkStart(before), 0)

KindsCharged == Cardinality({t \in 1..3 : Walked.move_cost[t] > 0})

MoveWalked == Called /\ action.kind = "Move" /\ action.path # <<>> /\ HasNode(Actor.position)

\* The first two parts of C36: a successful Move of two or more steps
\* charges one kind of movement and no card; a path charging two kinds fails.
OneKindOverSteps ==
    /\ (Succeeded /\ Len(action.path) >= 2) => (KindsCharged = 1 /\ Walked.card_cost = 0)
    /\ KindsCharged >= 2 => ~Succeeded

\* C36 (as stated): a successful Move of two or more steps charges one kind
\* of movement and no card; a path charging two kinds fails; a path charging
\* cards succeeds only with one step and as many cards named as charged.
MoveChargesOneKind ==
    MoveWalked =>
        /\ OneKindOverSteps
        /\ (Succeeded /\ Walked.card_cost > 0) =>
               (Len(action.path) = 1 /\ Len(action.cards) = Walked.card_cost)

\* C36 (amended): the same, but that a free move which meets no barrier
\* pays no card for the Swamp or Village node it steps onto.
MoveChargesOneKindUnlessFree ==
    MoveWalked =>
        /\ OneKindOverSteps
        /\ (Succeeded /\ Walked.card_cost > 0) =>
               /\ Len(action.path) = 1
               /\ \/ Len(action.cards) = Walked.card_cost
                  \/ is_free_move(action, Actor) /\ Walked.broken_barrier = -1

\* C36 happens: a FreeMove token alone took the player onto the village, no
\* card named.
FreeMoveOntoVillage ==
    /\ MoveWalked
    /\ Succeeded
    /\ action.cards = <<>>
    /\ Len(action.tokens) = 1
    /\ Walked.card_cost = 1
    /\ with_terrain(ActorNow.position, "Village")
    /\ ActorNow.tokens = <<>>

\* The barriers new() leaves between the boards of the map.
BarriersCreated == finish_idx - 1

BrokenRecords(ps) == SeqSum([k \in DOMAIN ps |-> Len(ps[k].broken_barriers)])

\* The first step of the last action's path meets a barrier, as handle_move
\* looks it up.
FirstStepBarred ==
    barrier_index(before, node_at(Actor.position).board_idx,
                  node_at(neighbor_coord(action.path[1], Actor.position)).board_idx) >= 0

\* C37: the barriers standing and the broken-barrier records of all players
\* add up to the barriers created; a successful Move removes at most one
\* barrier, and removes one exactly when it appends one record to the
\* mover's history; a step that meets a standing barrier leaves the mover
\* where they were.
BarriersAccountedFor ==
    /\ Len(barriers) + BrokenRecords(players) = BarriersCreated
    /\ (Succeeded /\ action.kind = "Move") =>
           /\ Len(before.barriers) - Len(barriers) \in {0, 1}
           /\ Len(ActorNow.broken_barriers) - Len(Actor.broken_barriers)
                  = Len(before.barriers) - Len(barriers)
           /\ \A k \in DOMAIN players :
                  k # before.curr_player_idx + 1 =>
                      players[k].broken_barriers = before.players[k].broken_barriers
           /\ (Len(action.path) = 1 /\ HasNode(neighbor_coord(action.path[1], Actor.position)) /\ FirstStepBarred) =>
                  /\ ActorNow.position = Actor.position
                  /\ Len(barriers) = Len(before.barriers) - 1

\* C37 happens: a one-step Move met the barrier, which is gone and on the
\* mover's record, the mover still where they stood.
BarriersAccountedForWitness ==
    /\ Succeeded
    /\ action.kind = "Move"
    /\ Len(action.path) = 1
    /\ outcome = "IgnoreMoveIdx"
    /\ Len(barriers) = Len(before.barriers) - 1
    /\ Len(ActorNow.broken_barriers) = Len(Actor.broken_barriers) + 1
    /\ ActorNow.position = Actor.position

\* The last call was a successful Move that broke a Swamp barrier.
BrokeSwampBarrier ==
    /\ Succeeded
    /\ action.kind = "Move"
    /\ Len(ActorNow.broken_barriers) = Len(Actor.broken_barriers) + 1
    /\ ActorNow.broken_barriers[Len(ActorNow.broken_barriers)].terrain = "Swamp"

\* C38: the cards paid to break a Swamp barrier go to the played pile: the
\* mover holds as many cards after breaking it as before, whatever they
\* stand on.
SwampBarrierKeepsCards ==
    BrokeSwampBarrier =>
        /\ CardCount(ActorNow) = CardCount(Actor)
        /\ Len(ActorNow.played) = Len(Actor.played) + Len(action.cards)

\* C39: a call leaves every player but the one whose turn it was as they
\* were, field for field, and the map and the distance table as they were
\* built, also when it breaks a barrier.
OthersAndMapUntouched ==
    /\ hexmap.nodes = HexMapNodes
    /\ hexmap.finish_idx = finish_idx
    /\ hexgraph.dists = dists
    /\ hexgraph.max_dist = max_dist
    /\ Called =>
           \A k \in DOMAIN players :
               k # before.curr_player_idx + 1 => players[k] = before.players[k]

\* C39 happens: a Move broke the barrier and changed the mover, the table
\* still giving the distances of the map as built.
OthersAndMapUntouchedWitness ==
    /\ Succeeded
    /\ action.kind = "Move"
    /\ Len(barriers) < Len(before.barriers)
    /\ ActorNow # Actor
    /\ hexgraph.dists = dists
    /\ \E k \in DOMAIN players :
           k # before.curr_player_idx + 1 /\ players[k] = before.players[k]

\* The path of the last Move, summed without a width, charges more than a
\* u8 holds to one of the accumulators of handle_move.
ChargesBeyondU8 ==
    /\ Called
    /\ action.kind = "Move"
    /\ Trekked.on_map
    /\ ~Trekked.barred
    /\ \/ \E t \in 1..3 : Trekked.move[t] >= U8
       \/ Trekked.card >= U8

\* C40: a Move whose path charges more than 255 to an accumulator is
\* refused with Err: it neither panics nor goes through on the wrapped sum.
OverchargedMoveRefused == ChargesBeyondU8 => outcome = "Err"

\* The Move went through on a sum that had wrapped to what one card pays.
WrappedCostAccepted ==
    /\ ChargesBeyondU8
    /\ Succeeded
    /\ Len(action.cards) = 1
    /\ ActorNow.position # Actor.position

====
